---- MODULE Spec2Model ----
(***************************************************************************)
(* ShapeMeAI: the collection data gateway (shape-collections-fetcher.ts),  *)
(* the process-wide collection cache (collections-data.ts), the persona    *)
(* matching engine (ai-service.ts), the analytics snapshots and deep-dive  *)
(* synthesis (analytics-service.ts) and the two API endpoints, as state    *)
(* machines.                                                               *)
(*                                                                         *)
(* JavaScript values are records tagged by their type, so that null,       *)
(* undefined, NaN, strings and numbers stay distinct and the language's    *)
(* truthiness and numeric conversion can be computed as the runtime does.  *)
(* A string is a tuple of pieces (template literals concatenate pieces).   *)
(***************************************************************************)
EXTENDS Integers, Sequences, FiniteSets, TLC

VARIABLES
    \* ---- collections-data.ts / shape-collections-fetcher.ts ----
    CACHED_COLLECTIONS, \* the module-level cache (a sequence of Collection)
    pc,                 \* per caller: position inside loadCollectionsCache
    isConnected,        \* per caller: result of testShapeNetworkConnection
    collections,        \* per caller: fetchAllShapeCollections' local array
    i,                  \* per caller: fetchAllShapeCollections' loop index
    ret,                \* per caller: value the finished call resolved with
    requested,          \* per caller: addresses handed to fetchCollectionData
    faProgress,         \* per caller: values fetchAll passed to onProgress
    loadProgress,       \* per caller: values load passed to onProgress (x100)
    sawEmpty,           \* per caller: the call found the cache empty
    batchStarted,       \* per caller: the call entered fetchAllShapeCollections
    \* ---- history of a run of sequential calls (SeqSpec) ----
    probeCount,         \* number of testShapeNetworkConnection calls so far
    batchCount,         \* number of fetchAllShapeCollections calls so far
    firstStored,        \* the first sequence a load call stored
    \* ---- fetchCollectionData called on its own ----
    fo_pc, fo_addr, fo_meta, fo_owners, fo_result,
    \* ---- ai-service.ts ----
    pe_pc, pe_def, pe_gen, pe_all, pe_result,
    \* ---- analytics-service.ts: a snapshot function called on its own ----
    an_pc, an_in, an_out,
    \* ---- the deep dive: fetchAIAnalysis and the /ai-analysis endpoint ----
    dd_pc, dd_args, dd_analysis, dd_req, dd_gen, dd_response,
    \* ---- the /analyze-persona endpoint ----
    rt_pc, rt_req, rt_gen, rt_response,
    \* ---- useWidgetState.ts ----
    state,              \* the hook's state
    ibc_pc,             \* position inside initiateBackgroundCache
    ibc_collections,    \* the value its awaited load resolved with
    progressLog,        \* the progress values it wrote, in order
    loadsStarted,       \* the loadCollectionsCache calls it made
    inflight,           \* the selectPersona calls under way
    resultsFrom,        \* the persona whose call stored the results held
    \* ---- CollectionResults.tsx ----
    analyticsState,     \* per contract address: the analytics entry
    cr_calls,           \* the fetchAnalytics calls under way
    cr_event,           \* what the last step did, and to which metric
    cr_started,         \* the fetchAnalytics calls started so far
    \* ---- isShapeNetworkCollection called on its own ----
    sn_pc, sn_arg, sn_result, sn_count

cacheVars == <<CACHED_COLLECTIONS, pc, isConnected, collections, i, ret,
               requested, faProgress, loadProgress, sawEmpty, batchStarted>>
tallyVars == <<probeCount, batchCount, firstStored>>
foVars == <<fo_pc, fo_addr, fo_meta, fo_owners, fo_result>>
peVars == <<pe_pc, pe_def, pe_gen, pe_all, pe_result>>
anVars == <<an_pc, an_in, an_out>>
ddVars == <<dd_pc, dd_args, dd_analysis, dd_req, dd_gen, dd_response>>
rtVars == <<rt_pc, rt_req, rt_gen, rt_response>>
wdVars == <<state, ibc_pc, ibc_collections, progressLog, loadsStarted, inflight,
            resultsFrom>>
crVars == <<analyticsState, cr_calls, cr_event, cr_started>>
snVars == <<sn_pc, sn_arg, sn_result, sn_count>>
uiVars == <<wdVars, crVars, snVars>>
vars == <<cacheVars, tallyVars, foVars, peVars, anVars, ddVars, rtVars, uiVars>>

-----------------------------------------------------------------------------
(* JavaScript values *)

Null == [t |-> "null"]
Undefined == [t |-> "undefined"]
NaN == [t |-> "nan"]
Str(pieces) == [t |-> "string", s |-> pieces]
Num(n) == [t |-> "number", n |-> n]
Bool(b) == [t |-> "boolean", b |-> b]
Obj == [t |-> "object"]

\* ToBoolean
Truthy(v) ==
    CASE v.t = "null" -> FALSE
      [] v.t = "undefined" -> FALSE
      [] v.t = "nan" -> FALSE
      [] v.t = "string" -> v.s # <<>>
      [] v.t = "number" -> v.n # 0
      [] v.t = "boolean" -> v.b
      [] OTHER -> TRUE

\* a || b
Or(a, b) == IF Truthy(a) THEN a ELSE b

\* a completion of a function body: a returned value or a thrown error
Return(v) == [kind |-> "return", value |-> v]
Throw(e) == [kind |-> "throw", error |-> e]

-----------------------------------------------------------------------------
(* shape-collections-fetcher.ts *)

SHAPE_COLLECTION_CONTRACTS ==
    << "0x6E148B55e4Cd30Ea6727d7E0661c3918A6C4E9Db",
       "0xdad1276ecd6d27116da400b33c81ce49d91d5831",
       "0x5fa1fdb5fe2c315abaad750dae700747f250b0c2",
       "0xab3a867a6b14cc2f3286b9f03698656f8a892e9e",
       "0xf2e4b2a15872a20d0ffb336a89b94ba782ce9ba5",
       "0x3ea45cecbf513dfc8527b585cfbf0f474d130925",
       "0xadede2a59b46ef9815e349464ea14d40195d4a2b",
       "0xa311e4ab8afea4f152da8f02a9d789c6d43fd1f3",
       "0xf520f9297fc6f6ab186c911e41f715634d5a2de2",
       "0xbb8f2711bd4bc98223990267f771e97d2d9bc167",
       "0x4E454C9aBCaD9780F3569E494d7EdE3CB6575b01",
       "0xb6d2a34815055f2844aeb69d3386c605208a96cb",
       "0xe112Cf01c6cE916fFC2bDc350cC405E8357285DF",
       "0xB33F463369c1C53B2fD9260877565d5624CCDDd9",
       "0x0c86384cbe928421b88ef6f3787afd9261d04346",
       "0x758bb513346939825a2094a1d4fbd9135514d67e" >>

\* contractAddress.slice(0, 6) of each listed address, in list order
SlicePrefixes ==
    << "0x6E14", "0xdad1", "0x5fa1", "0xab3a", "0xf2e4", "0x3ea4", "0xaded",
       "0xa311", "0xf520", "0xbb8f", "0x4E45", "0xb6d2", "0xe112", "0xB33F",
       "0x0c86", "0x758b" >>

Slice06(contractAddress) ==
    LET k == CHOOSE k \in DOMAIN SHAPE_COLLECTION_CONTRACTS :
                 SHAPE_COLLECTION_CONTRACTS[k] = contractAddress
    IN  SlicePrefixes[k]

\* a string holding an unpaired surrogate, on which encodeURIComponent throws
LoneSurrogate == "<U+D800>"

\* encodeURIComponent on the strings the model uses
encodeURIComponent(v) ==
    IF LoneSurrogate \in {v.s[k] : k \in DOMAIN v.s}
    THEN Throw("URIError")
    ELSE Return(Str([k \in DOMAIN v.s |->
            CASE v.s[k] = "Almost Normal" -> "Almost%20Normal"
              [] v.s[k] = "Shape Punks" -> "Shape%20Punks"
              [] OTHER -> v.s[k]]))

\* parseInt on the values the model uses: the argument is converted to a
\* string and its leading integer is read; null, undefined, booleans and
\* plain objects give no digits
parseInt(v) ==
    CASE v.t = "string" ->
           (CASE v.s = <<"2500">> -> Num(2500)
              [] v.s = <<"1000">> -> Num(1000)
              [] v.s = <<"85">> -> Num(85)
              [] v.s = <<"85%">> -> Num(85)
              [] v.s = <<"85.7">> -> Num(85)
              [] v.s = <<"-5">> -> Num(-5)
              [] OTHER -> NaN)
      [] v.t = "number" -> Num(v.n)
      [] OTHER -> NaN

\* obj?.field
Opt(obj, field) ==
    IF obj.t \in {"null", "undefined"} THEN Undefined ELSE obj[field]

\* outcome of one upstream promise under Promise.allSettled
Rejected == [status |-> "rejected"]
Fulfilled(v) == [status |-> "fulfilled", value |-> v]

Arr(a) == [t |-> "array", a |-> a]

\* replies of getNftsForContract the model draws from
ContractInfos ==
    {Undefined} \cup
    [t : {"object"},
     name : {Undefined, Str(<<"Almost Normal">>), Str(<<LoneSurrogate>>)},
     symbol : {Undefined, Str(<<"NORMAL">>)},
     totalSupply : {Undefined, Str(<<"2500">>), Str(<<"many">>)}]

ImageInfos ==
    {Undefined} \cup
    [t : {"object"},
     originalUrl : {Undefined, Str(<<"ipfs://original">>)},
     cachedUrl : {Undefined, Str(<<"https://nft-cdn/cached">>)}]

Nfts == [t : {"object"}, contract : ContractInfos, image : ImageInfos]

MetaOutcomes ==
    {Rejected} \cup
    {Fulfilled([t |-> "object", nfts |-> n]) :
        n \in {Undefined, Arr(<<>>)} \cup {Arr(<<x>>) : x \in Nfts}}

\* replies of getOwnersForContract the model draws from
OwnersOutcomes ==
    {Rejected} \cup
    {Fulfilled([t |-> "object", owners |-> o]) :
        o \in {Undefined, Arr(<<>>), Arr(<<"0xa1">>), Arr(<<"0xa1", "0xb2">>)}}

\* firstNft = nftsData?.nfts?.[0]
FirstOf(nftsData) ==
    LET nfts == Opt(nftsData, "nfts")
    IN  IF nfts.t \in {"null", "undefined"} THEN Undefined
        ELSE IF Len(nfts.a) = 0 THEN Undefined ELSE nfts.a[1]

openSeaUrlOf(contractAddress) ==
    Str(<<"https://opensea.io/assets/shape/", contractAddress>>)
originalUrlOf(contractAddress) ==
    Str(<<"https://shape.network/collection/", contractAddress>>)

\* the record of the catch block
DegradedCollection(contractAddress) ==
    [t |-> "object",
     contractAddress |-> contractAddress,
     name |-> Str(<<"Unknown Collection (", Slice06(contractAddress), "...)">>),
     symbol |-> Null,
     totalSupply |-> Null,
     owners |-> Null,
     image |-> Str(<<"https://via.placeholder.com/300x300?text=Error+Loading">>),
     openSeaUrl |-> openSeaUrlOf(contractAddress),
     originalUrl |-> originalUrlOf(contractAddress)]

\* the try block: everything between the two settled promises and the return
fetchCollectionDataTry(contractAddress, nftsResponse, ownersResponse) ==
    LET nftsData == IF nftsResponse.status = "fulfilled"
                    THEN nftsResponse.value ELSE Null
        ownersData == IF ownersResponse.status = "fulfilled"
                      THEN ownersResponse.value ELSE Null
        firstNft == FirstOf(nftsData)
        contract == Opt(firstNft, "contract")
        collectionName == Or(Opt(contract, "name"), Null)
        collectionSymbol == Or(Opt(contract, "symbol"), Null)
        totalSupply == IF Truthy(Opt(contract, "totalSupply"))
                       THEN parseInt(contract.totalSupply) ELSE Null
        uniqueOwners == IF Truthy(Opt(ownersData, "owners"))
                        THEN Num(Len(ownersData.owners.a)) ELSE Null
        img == Opt(firstNft, "image")
        urls == Or(Opt(img, "originalUrl"), Opt(img, "cachedUrl"))
        encoded == encodeURIComponent(Or(collectionName, Str(<<"Collection">>)))
    IN  IF ~Truthy(urls) /\ encoded.kind = "throw"
        THEN encoded
        ELSE Return(
            [t |-> "object",
             contractAddress |-> contractAddress,
             name |-> collectionName,
             symbol |-> collectionSymbol,
             totalSupply |-> totalSupply,
             owners |-> uniqueOwners,
             image |-> IF Truthy(urls) THEN urls
                       ELSE Str(<<"https://via.placeholder.com/300x300?text=">>
                                \o encoded.value.s),
             openSeaUrl |-> openSeaUrlOf(contractAddress),
             originalUrl |-> originalUrlOf(contractAddress)])

\* a catch block that lets the error escape
fetchCollectionData_Rethrow(contractAddress, nftsResponse, ownersResponse) ==
    fetchCollectionDataTry(contractAddress, nftsResponse, ownersResponse)

fetchCollectionData(contractAddress, nftsResponse, ownersResponse) ==
    LET body == fetchCollectionDataTry(contractAddress, nftsResponse, ownersResponse)
    IN  IF body.kind = "throw"
        THEN Return(DegradedCollection(contractAddress))
        ELSE body

\* a progress value that forgets to divide by the total
RoundPercent_NoDivide(idx, total) == idx * 100

\* Math.round((i / totalContracts) * 100), half rounding up
RoundPercent(idx, total) ==
    (200 * idx + total) \div (2 * total)

-----------------------------------------------------------------------------
(* Bounds of the model *)

\* the loop of fetchAllShapeCollections runs over this many leading entries
NumContracts == 3

Contracts == SubSeq(SHAPE_COLLECTION_CONTRACTS, 1, NumContracts)
totalContracts == Len(Contracts)

\* the callers that may be inside loadCollectionsCache at the same time
Callers == {"c1", "c2"}

\* upstream replies the batch fetch draws from, per item: both calls answer,
\* or both calls fail (FetchOneSpec runs fetchCollectionData over every reply)
GoodNft ==
    [t |-> "object",
     contract |-> [t |-> "object", name |-> Str(<<"Almost Normal">>),
                   symbol |-> Str(<<"NORMAL">>), totalSupply |-> Str(<<"2500">>)],
     image |-> [t |-> "object", originalUrl |-> Str(<<"ipfs://original">>),
                cachedUrl |-> Undefined]]
UpstreamSample ==
    { <<Fulfilled([t |-> "object", nfts |-> Arr(<<GoodNft>>)]),
        Fulfilled([t |-> "object", owners |-> Arr(<<"0xa1", "0xb2">>)])>>,
      <<Rejected, Rejected>> }

-----------------------------------------------------------------------------
(* collections-data.ts *)

FallbackRecord(addr, name, symbol, supply, owners, img, sea, url) ==
    [t |-> "object", contractAddress |-> addr, name |-> Str(<<name>>),
     symbol |-> Str(<<symbol>>), totalSupply |-> Num(supply),
     owners |-> Num(owners), image |-> Str(<<img>>),
     openSeaUrl |-> Str(<<sea>>), originalUrl |-> Str(<<url>>)]

loadFallbackCollections ==
    << FallbackRecord("0x6E148B55e4Cd30Ea6727d7E0661c3918A6C4E9Db",
         "Almost Normal", "NORMAL", 2500, 800,
         "https://via.placeholder.com/300x300?text=Almost+Normal",
         "https://opensea.io/collection/almost-normal",
         "https://almostnormal.xyz"),
       FallbackRecord("0xdad1276ecd6d27116da400b33c81ce49d91d5831",
         "Shape Punks", "SPUNK", 1000, 600,
         "https://via.placeholder.com/300x300?text=Shape+Punks",
         "https://opensea.io/collection/shape-punks",
         "https://shapepunks.com"),
       FallbackRecord("0x5fa1fdb5fe2c315abaad750dae700747f250b0c2",
         "DEFAULT_STATE.EXE", "DSE", 500, 300,
         "https://via.placeholder.com/300x300?text=DEFAULT_STATE",
         "https://opensea.io/collection/default-state-exe",
         "https://defaultstate.xyz") >>

getAllCollections == CACHED_COLLECTIONS

NoValue == [has |-> FALSE]
Value(v) == [has |-> TRUE, v |-> v]

\* onProgress values of loadCollectionsCache are kept in hundredths
Hundredths(n) == 100 * n
\* 10 + (progress * 0.85)
overallProgress(progress) == 1000 + 85 * progress

TallyInit ==
    /\ probeCount = 0
    /\ batchCount = 0
    /\ firstStored = NoValue

CacheInit ==
    /\ CACHED_COLLECTIONS = <<>>
    /\ pc = [p \in Callers |-> "idle"]
    /\ isConnected = [p \in Callers |-> FALSE]
    /\ collections = [p \in Callers |-> <<>>]
    /\ i = [p \in Callers |-> 0]
    /\ ret = [p \in Callers |-> NoValue]
    /\ requested = [p \in Callers |-> <<>>]
    /\ faProgress = [p \in Callers |-> <<>>]
    /\ loadProgress = [p \in Callers |-> <<>>]
    /\ sawEmpty = [p \in Callers |-> FALSE]
    /\ batchStarted = [p \in Callers |-> FALSE]

\* the catch block of loadCollectionsCache up to its await
EnterCatch(p) ==
    /\ loadProgress' = [loadProgress EXCEPT ![p] = Append(@, Hundredths(90))]
    /\ pc' = [pc EXCEPT ![p] = "fallback"]

\* a load that skips the presence check and always fetches
Call_NoPresenceCheck(p) ==
    /\ pc[p] = "idle"
    /\ sawEmpty' = [sawEmpty EXCEPT ![p] = (Len(CACHED_COLLECTIONS) = 0)]
    /\ pc' = [pc EXCEPT ![p] = "import"]
    /\ ret' = ret
    /\ UNCHANGED <<CACHED_COLLECTIONS, isConnected, collections, i,
                   requested, faProgress, loadProgress, batchStarted>>

\* loadCollectionsCache up to its first await: the presence check
Call(p) ==
    /\ pc[p] = "idle"
    /\ sawEmpty' = [sawEmpty EXCEPT ![p] = (Len(CACHED_COLLECTIONS) = 0)]
    /\ IF Len(CACHED_COLLECTIONS) > 0
       THEN /\ ret' = [ret EXCEPT ![p] = Value(CACHED_COLLECTIONS)]
            /\ pc' = [pc EXCEPT ![p] = "returned"]
       ELSE /\ pc' = [pc EXCEPT ![p] = "import"]
            /\ ret' = ret
    /\ UNCHANGED <<CACHED_COLLECTIONS, isConnected, collections, i,
                   requested, faProgress, loadProgress, batchStarted>>

\* the dynamic import settles; on success the probe is issued
ImportDone(p) ==
    /\ pc[p] = "import"
    /\ \E ok \in BOOLEAN :
         IF ok
         THEN /\ loadProgress' = [loadProgress EXCEPT ![p] = Append(@, Hundredths(5))]
              /\ pc' = [pc EXCEPT ![p] = "probe"]
         ELSE EnterCatch(p)
    /\ UNCHANGED <<CACHED_COLLECTIONS, isConnected, collections, i, ret,
                   requested, faProgress, sawEmpty, batchStarted>>

\* top of one loop iteration of fetchAllShapeCollections, for index idx:
\* either report progress and request the item, or leave the loop
LoopHead(p, idx, progressSoFar, loadSoFar) ==
    IF idx < totalContracts
    THEN LET progress == RoundPercent(idx, totalContracts) IN
         /\ faProgress' = [faProgress EXCEPT ![p] = Append(progressSoFar, progress)]
         /\ loadProgress' = [loadProgress EXCEPT ![p] =
                                Append(loadSoFar, overallProgress(progress))]
         /\ requested' = [requested EXCEPT ![p] = Append(@, Contracts[idx + 1])]
         /\ pc' = [pc EXCEPT ![p] = "fa_fetch"]
    ELSE /\ faProgress' = [faProgress EXCEPT ![p] = Append(progressSoFar, 100)]
         /\ loadProgress' = [loadProgress EXCEPT ![p] =
                                Append(loadSoFar, overallProgress(100))]
         /\ requested' = requested
         /\ pc' = [pc EXCEPT ![p] = "fa_done"]

\* testShapeNetworkConnection settles (it answers false instead of raising);
\* when connected, fetchAllShapeCollections starts and requests item 0
ProbeDone(p) ==
    /\ pc[p] = "probe"
    /\ \E connected \in BOOLEAN :
         /\ isConnected' = [isConnected EXCEPT ![p] = connected]
         /\ IF connected
            THEN /\ batchStarted' = [batchStarted EXCEPT ![p] = TRUE]
                 /\ collections' = [collections EXCEPT ![p] = <<>>]
                 /\ i' = [i EXCEPT ![p] = 0]
                 /\ LoopHead(p, 0, <<0>>,
                        loadProgress[p] \o <<Hundredths(10), overallProgress(0)>>)
            ELSE /\ EnterCatch(p)
                 /\ UNCHANGED <<batchStarted, collections, i, requested, faProgress>>
    /\ UNCHANGED <<CACHED_COLLECTIONS, ret, sawEmpty>>

\* a batch that accumulates in the module-level array instead of a local one
PushItem_IntoCache(p, completion) ==
    /\ collections' = [collections EXCEPT ![p] =
           IF completion.kind = "return" /\ Truthy(completion.value)
           THEN Append(@, completion.value) ELSE @]
    /\ CACHED_COLLECTIONS' = collections'[p]

\* collections.push(collection), guarded by if (collection); the array is
\* local to the run, the cache is not touched
PushItem(p, completion) ==
    /\ collections' = [collections EXCEPT ![p] =
           IF completion.kind = "return" /\ Truthy(completion.value)
           THEN Append(@, completion.value) ELSE @]
    /\ UNCHANGED CACHED_COLLECTIONS

\* a loop that stops at the first item whose metadata is missing
FetchDone_AbortOnFailure(p) ==
    /\ pc[p] = "fa_fetch"
    /\ \E up \in UpstreamSample :
         LET completion == fetchCollectionData(Contracts[i[p] + 1], up[1], up[2]) IN
         /\ PushItem(p, completion)
         /\ IF completion.kind = "return" /\ Truthy(completion.value.name)
            THEN /\ pc' = [pc EXCEPT ![p] = "fa_delay"]
                 /\ UNCHANGED <<i, requested, faProgress, loadProgress>>
            ELSE /\ i' = i
                 /\ LoopHead(p, totalContracts, faProgress[p], loadProgress[p])
    /\ UNCHANGED <<isConnected, ret, sawEmpty, batchStarted>>

\* the awaited fetchCollectionData of item i settles
FetchDone(p) ==
    /\ pc[p] = "fa_fetch"
    /\ \E up \in UpstreamSample :
         LET completion == fetchCollectionData(Contracts[i[p] + 1], up[1], up[2]) IN
         /\ PushItem(p, completion)
         /\ IF completion.kind = "return"
            THEN /\ pc' = [pc EXCEPT ![p] = "fa_delay"]
                 /\ UNCHANGED <<i, requested, faProgress, loadProgress>>
            ELSE \* the loop's catch: log, then the next iteration
                 /\ i' = [i EXCEPT ![p] = @ + 1]
                 /\ LoopHead(p, i[p] + 1, faProgress[p], loadProgress[p])
    /\ UNCHANGED <<isConnected, ret, sawEmpty, batchStarted>>

\* the 100 ms delay ends: i++ and the next iteration, or the loop ends
DelayDone(p) ==
    /\ pc[p] = "fa_delay"
    /\ i' = [i EXCEPT ![p] = @ + 1]
    /\ LoopHead(p, i[p] + 1, faProgress[p], loadProgress[p])
    /\ UNCHANGED <<CACHED_COLLECTIONS, isConnected, collections, ret,
                   sawEmpty, batchStarted>>

\* the write of the cache by a load call
StoreCache(p, value) ==
    /\ CACHED_COLLECTIONS' = value
    /\ loadProgress' = [loadProgress EXCEPT ![p] = Append(@, Hundredths(100))]
    /\ ret' = [ret EXCEPT ![p] = Value(value)]
    /\ pc' = [pc EXCEPT ![p] = "returned"]

\* fetchAllShapeCollections has resolved: cache the result and return it
StoreFetched(p) ==
    /\ pc[p] = "fa_done"
    /\ StoreCache(p, collections[p])
    /\ UNCHANGED <<isConnected, collections, i, requested, faProgress,
                   sawEmpty, batchStarted>>

\* a fallback that is returned to the caller but never cached
StoreFallback_NotCached(p) ==
    /\ pc[p] = "fallback"
    /\ loadProgress' = [loadProgress EXCEPT ![p] = Append(@, Hundredths(100))]
    /\ ret' = [ret EXCEPT ![p] = Value(loadFallbackCollections)]
    /\ pc' = [pc EXCEPT ![p] = "returned"]
    /\ UNCHANGED <<CACHED_COLLECTIONS, isConnected, collections, i,
                   requested, faProgress, sawEmpty, batchStarted>>

\* loadFallbackCollections has resolved: cache the static set and return it
StoreFallback(p) ==
    /\ pc[p] = "fallback"
    /\ StoreCache(p, loadFallbackCollections)
    /\ UNCHANGED <<isConnected, collections, i, requested, faProgress,
                   sawEmpty, batchStarted>>

\* the caller awaiting the call takes the value; the call's locals are gone
Resume(p) ==
    /\ pc[p] = "returned"
    /\ pc' = [pc EXCEPT ![p] = "idle"]
    /\ ret' = [ret EXCEPT ![p] = NoValue]
    /\ isConnected' = [isConnected EXCEPT ![p] = FALSE]
    /\ collections' = [collections EXCEPT ![p] = <<>>]
    /\ i' = [i EXCEPT ![p] = 0]
    /\ requested' = [requested EXCEPT ![p] = <<>>]
    /\ faProgress' = [faProgress EXCEPT ![p] = <<>>]
    /\ loadProgress' = [loadProgress EXCEPT ![p] = <<>>]
    /\ sawEmpty' = [sawEmpty EXCEPT ![p] = FALSE]
    /\ batchStarted' = [batchStarted EXCEPT ![p] = FALSE]
    /\ UNCHANGED <<CACHED_COLLECTIONS>>

clearCollectionsCache ==
    /\ CACHED_COLLECTIONS' = <<>>
    /\ UNCHANGED <<pc, isConnected, collections, i, ret, requested,
                   faProgress, loadProgress, sawEmpty, batchStarted>>

\* the steps of a call that is under way
Continue(p) ==
    \/ ImportDone(p)
    \/ ProbeDone(p)
    \/ FetchDone(p)
    \/ DelayDone(p)
    \/ StoreFetched(p)
    \/ StoreFallback(p)
    \/ Resume(p)

loadCollectionsCache(p) == Call(p) \/ Continue(p)

-----------------------------------------------------------------------------
(* fetchCollectionData called on its own, over every modelled reply *)

FoIdle ==
    /\ fo_pc = "idle"
    /\ fo_addr = ""
    /\ fo_meta = Rejected
    /\ fo_owners = Rejected
    /\ fo_result = NoValue

FoCall ==
    /\ fo_pc = "idle"
    /\ fo_pc' = "pending"
    /\ fo_addr' \in {SHAPE_COLLECTION_CONTRACTS[k] : k \in DOMAIN SHAPE_COLLECTION_CONTRACTS}
    /\ fo_meta' \in MetaOutcomes
    /\ fo_owners' \in OwnersOutcomes
    /\ fo_result' = NoValue

FoSettle ==
    /\ fo_pc = "pending"
    /\ fo_pc' = "settled"
    /\ fo_result' = Value(fetchCollectionData(fo_addr, fo_meta, fo_owners))
    /\ UNCHANGED <<fo_addr, fo_meta, fo_owners>>

-----------------------------------------------------------------------------
(* ai-service.ts *)

\* Numbers of a text-generation reply are held in hundredths: 0.85 is
\* Num(85), 1 is Num(100).
One == Num(100)
Zero == Num(0)

\* ToNumber, on the values the model uses
ToNumber(v) ==
    CASE v.t = "number" -> v
      [] v.t = "null" -> Zero
      [] v.t = "boolean" -> IF v.b THEN One ELSE Zero
      [] v.t = "string" ->
           (CASE v.s = <<>> -> Zero
              [] v.s = <<"0.7">> -> Num(70)
              [] v.s = <<"7">> -> Num(700)
              [] OTHER -> NaN)
      [] OTHER -> NaN

\* Math.min and Math.max of two arguments: NaN if either converts to NaN
MathMin(a, b) ==
    LET x == ToNumber(a)
        y == ToNumber(b)
    IN  IF x.t = "nan" \/ y.t = "nan" THEN NaN
        ELSE IF x.n <= y.n THEN x ELSE y

MathMax(a, b) ==
    LET x == ToNumber(a)
        y == ToNumber(b)
    IN  IF x.t = "nan" \/ y.t = "nan" THEN NaN
        ELSE IF x.n >= y.n THEN x ELSE y

\* array[k] with a JavaScript (0-based) index: undefined outside the array
ArrayGet(array, k) ==
    IF k \in 0..(Len(array) - 1) THEN array[k + 1] ELSE Undefined

\* array.slice(0, n) for n >= 0
Slice0(array, n) == SubSeq(array, 1, IF Len(array) < n THEN Len(array) ELSE n)

\* A reply text is a sequence of pieces: prose without braces, a brace-
\* delimited span that is no JSON, or the text of a JSON object.
Prose == [k |-> "prose"]
Braces == [k |-> "braces"]
Json(obj) == [k |-> "json", obj |-> obj]

\* response.match(/\{[\s\S]*\}/): from the first "{" to the last "}"
RegexMatch(response) ==
    LET braced == {k \in DOMAIN response : response[k].k \in {"braces", "json"}}
        first == CHOOSE k \in braced : \A m \in braced : k <= m
        last == CHOOSE k \in braced : \A m \in braced : k >= m
    IN  IF braced = {} THEN Null
        ELSE [t |-> "match", text |-> SubSeq(response, first, last)]

\* JSON.parse of a matched span: it parses only if it is one JSON object
JSONparse(text) ==
    IF Len(text) = 1 /\ text[1].k = "json"
    THEN Return(text[1].obj)
    ELSE Throw([isError |-> TRUE, message |-> "Unexpected token"])

\* a parse fallback that keeps three collections
ParseFallback_FirstThree(allCollections) ==
    [selectedCollections |-> Slice0(allCollections, 3),
     reasoning |-> Str(<<"AI response parsing failed, using fallback selection">>),
     confidence |-> Num(20)]

\* the catch block of parseClaudeResponse
ParseFallback(allCollections) ==
    [selectedCollections |-> Slice0(allCollections, 2),
     reasoning |-> Str(<<"AI response parsing failed, using fallback selection">>),
     confidence |-> Num(20)]

\* a mapping that takes the indices as 0-based
MapIndices_ZeroBased(selected, allCollections) ==
    [j \in DOMAIN selected |-> ArrayGet(allCollections, selected[j])]

\* index => allCollections[index - 1], as one sequence
MapIndices(selected, allCollections) ==
    [j \in DOMAIN selected |-> ArrayGet(allCollections, selected[j] - 1)]

\* a try block that forgets the limit of 4
ParsedResult_NoLimit(parsed, allCollections) ==
    IF ~Truthy(parsed.selectedCollections) \/ parsed.selectedCollections.t # "array"
    THEN Throw([isError |-> TRUE, message |-> "Invalid selectedCollections format"])
    ELSE Return(
        [selectedCollections |->
            SelectSeq(MapIndices(parsed.selectedCollections.a, allCollections), Truthy),
         reasoning |-> Or(parsed.reasoning, Str(<<"AI analysis completed">>)),
         confidence |-> MathMax(Zero, MathMin(One, Or(parsed.confidence, Num(50))))])

\* the try block of parseClaudeResponse once the JSON object is at hand
ParsedResult(parsed, allCollections) ==
    IF ~Truthy(parsed.selectedCollections) \/ parsed.selectedCollections.t # "array"
    THEN Throw([isError |-> TRUE, message |-> "Invalid selectedCollections format"])
    ELSE Return(
        [selectedCollections |->
            Slice0(SelectSeq(MapIndices(parsed.selectedCollections.a, allCollections),
                             Truthy), 4),
         reasoning |-> Or(parsed.reasoning, Str(<<"AI analysis completed">>)),
         confidence |-> MathMax(Zero, MathMin(One, Or(parsed.confidence, Num(50))))])

parseClaudeResponse(response, allCollections) ==
    LET jsonMatch == RegexMatch(response)
        parsed == JSONparse(jsonMatch.text)
        body == IF ~Truthy(jsonMatch)
                THEN Throw([isError |-> TRUE, message |-> "No JSON found in response"])
                ELSE IF parsed.kind = "throw" THEN parsed
                ELSE ParsedResult(parsed.value, allCollections)
    IN  IF body.kind = "throw" THEN ParseFallback(allCollections) ELSE body.value

\* a catch block that answers as the parse fallback does
AnalysisFallback_AsParseFallback(error, allCollections) ==
    [selectedCollections |-> Slice0(allCollections, 2),
     reasoning |-> Str(<<"AI response parsing failed, using fallback selection">>),
     confidence |-> Num(20)]

\* the catch block of analyzePersonaCollections
AnalysisFallback(error, allCollections) ==
    [selectedCollections |-> Slice0(allCollections, 2),
     reasoning |->
        Str(<<"AI analysis failed, showing first 2 collections as fallback. Error: ",
              IF error.isError THEN error.message ELSE "Unknown error">>),
     confidence |-> Num(10)]

\* createPersonaPrompt reads personaDefinition.title and each collection's
\* name: a TypeError when no definition was passed or a collection is null,
\* the prompt text otherwise
createPersonaPrompt(personaDefinition, allCollections) ==
    IF personaDefinition.t \in {"undefined", "null"}
    THEN Throw([isError |-> TRUE,
                message |-> "Cannot read properties of undefined (reading 'title')"])
    ELSE IF \E k \in DOMAIN allCollections : allCollections[k].t \in {"undefined", "null"}
    THEN Throw([isError |-> TRUE,
                message |-> "Cannot read properties of null (reading 'name')"])
    ELSE Return(Str(<<"MISSION: Analyze real NFT collections and select 3-4">>))

\* generated is the completion of the awaited generateText call
analyzePersonaCollections(generated, allCollections) ==
    IF generated.kind = "throw"
    THEN AnalysisFallback(generated.error, allCollections)
    ELSE parseClaudeResponse(generated.value, allCollections)

\* --- the replies and inputs the engine is run over ---

\* the longest selectedCollections array drawn
MaxSelected == 5

\* 1-based indices a reply may name: in range for some input, zero, negative
\* and far out of range
IndexValues == {-1, 0, 1, 2, 3, 99}

Selections == UNION {[1..n -> IndexValues] : n \in 0..MaxSelected}

ConfidenceValues ==
    {Undefined, Null, Num(-50), Num(0), Num(1), Num(50), Num(85), Num(100),
     Num(101), Num(250), Str(<<"high">>), Str(<<"0.7">>), Str(<<"7">>), Str(<<>>),
     Bool(TRUE), Bool(FALSE), Obj}

SomeReasoning == Str(<<"These collections embody the persona">>)

ReplyObjects ==
    {[selectedCollections |-> Arr(sel), reasoning |-> SomeReasoning,
      confidence |-> Num(85)] : sel \in Selections}
    \cup
    {[selectedCollections |-> Arr(<<1, 2, 99>>), reasoning |-> r, confidence |-> c] :
        r \in {Undefined, SomeReasoning}, c \in ConfidenceValues}
    \cup
    {[selectedCollections |-> x, reasoning |-> SomeReasoning, confidence |-> c] :
        x \in {Undefined, Null, Str(<<"1, 2">>), Num(300), Obj},
        c \in {Undefined, Num(85)}}

PlainObject ==
    [selectedCollections |-> Arr(<<1, 2>>), reasoning |-> SomeReasoning,
     confidence |-> Num(85)]

ReplyTexts ==
    {<<>>, <<Prose>>, <<Braces>>, <<Prose, Braces, Prose>>,
     <<Json(PlainObject)>>, <<Json(PlainObject), Prose, Json(PlainObject)>>,
     <<Braces, Json(PlainObject)>>}
    \cup {<<Prose, Json(o), Prose>> : o \in ReplyObjects}

GenOutcomes ==
    {Throw([isError |-> TRUE, message |-> "Overloaded"]),
     Throw([isError |-> FALSE, message |-> ""])}
    \cup {Return(text) : text \in ReplyTexts}

\* the collections handed to the engine: the leading records of the cache's
\* static set, none to all of them
InputCollections ==
    {SubSeq(loadFallbackCollections, 1, n) : n \in 0..Len(loadFallbackCollections)}

\* the persona definitions a caller passes: one of PERSONA_DEFINITIONS, or
\* none
PersonaDefinitionArgs == {Obj, Undefined}

PeIdle ==
    /\ pe_pc = "idle"
    /\ pe_def = Undefined
    /\ pe_gen = NoValue
    /\ pe_all = <<>>
    /\ pe_result = NoValue

\* analyzePersonaCollections is called and awaits generateText
PeCall ==
    /\ pe_pc = "idle"
    /\ pe_pc' = "generating"
    /\ pe_all' \in InputCollections
    /\ pe_def' \in PersonaDefinitionArgs
    /\ createPersonaPrompt(pe_def', pe_all').kind = "return"
    /\ pe_gen' = NoValue
    /\ pe_result' = NoValue

\* analyzePersonaCollections is called and createPersonaPrompt raises: the
\* catch block returns before any text is generated
PePromptRaises ==
    /\ pe_pc = "idle"
    /\ pe_pc' = "settled"
    /\ pe_all' \in InputCollections
    /\ pe_def' \in PersonaDefinitionArgs
    /\ createPersonaPrompt(pe_def', pe_all').kind = "throw"
    /\ pe_gen' = NoValue
    /\ pe_result' = Value(AnalysisFallback(createPersonaPrompt(pe_def', pe_all').error,
                                          pe_all'))

\* generateText settles and the call returns its result
PeSettle ==
    /\ pe_pc = "generating"
    /\ pe_pc' = "settled"
    /\ \E generated \in GenOutcomes :
         /\ pe_gen' = Value(generated)
         /\ pe_result' = Value(analyzePersonaCollections(generated, pe_all))
    /\ UNCHANGED <<pe_all, pe_def>>

-----------------------------------------------------------------------------
(* analytics-service.ts: the snapshot functions *)

\* Fractional numbers of the snapshots are held in tenths: concentrationRatio
\* 79.9 is 799, transferVelocity 2.4 is 24, avgTransactionValue 0.1 is 1.

\* the longest transfer list and the largest owner count upstream returns
MaxTransfers == 22
MaxOwners == 1000

\* the traders of the events upstream returns; the last two occur only in
\* events past the twentieth
TraderAddrs == <<"0xa1", "0xa2", "0xa3", "0xa4">>
LateFrom == "0xf1"
LateTo == "0xf2"

\* transfer lists, most recent first (order: 'desc'): n events among the
\* first m traders, each trader sending to the next one or to itself
TransferList(n, m, self) ==
    [k \in 1..n |->
        IF k > 20 THEN [from |-> LateFrom, to |-> LateTo]
        ELSE [from |-> TraderAddrs[((k - 1) % m) + 1],
              to |-> TraderAddrs[((IF self THEN k - 1 ELSE k) % m) + 1]]]

TransferLists ==
    {TransferList(n, m, self) :
        n \in 0..MaxTransfers, m \in 1..Len(TraderAddrs), self \in BOOLEAN}

\* completions of alchemy.core.getAssetTransfers
TransferOutcomes ==
    {Throw([isError |-> TRUE, message |-> "429 Too Many Requests"])}
    \cup {Return([transfers |-> l]) : l \in TransferLists}

\* completions of alchemy.nft.getOwnersForContract
OwnersReplies ==
    {Throw([isError |-> TRUE, message |-> "429 Too Many Requests"])}
    \cup {Return([owners |-> [k \in 1..h |-> "0xowner"]]) : h \in 0..MaxOwners}

\* a market health that counts every event upstream returned
fetchMarketHealth_NoSlice(transfers) ==
    IF transfers.kind = "throw" THEN transfers
    ELSE LET recentTransfers == transfers.value.transfers
             transferCount24h == Len(recentTransfers)
         IN  Return([t |-> "object",
                     transferCount24h |-> transferCount24h,
                     uniqueTraders24h |->
                        Cardinality({recentTransfers[k].from : k \in DOMAIN recentTransfers}
                            \cup {recentTransfers[k].to : k \in DOMAIN recentTransfers}),
                     liquidityScore |-> IF transferCount24h * 5 > 100 THEN 100
                                        ELSE transferCount24h * 5,
                     momentum |-> IF transferCount24h > 10 THEN "bullish"
                                  ELSE IF transferCount24h > 5 THEN "neutral"
                                  ELSE "bearish",
                     avgTransactionValue |-> 1])

\* fetchMarketHealth; transfers is the completion of the awaited
\* getAssetTransfers call, and a raise is logged and raised again
fetchMarketHealth(transfers) ==
    IF transfers.kind = "throw" THEN transfers
    ELSE LET recentTransfers == Slice0(transfers.value.transfers, 20)
             transferCount24h == Len(recentTransfers)
         IN  Return([t |-> "object",
                     transferCount24h |-> transferCount24h,
                     uniqueTraders24h |->
                        Cardinality({recentTransfers[k].from : k \in DOMAIN recentTransfers}
                            \cup {recentTransfers[k].to : k \in DOMAIN recentTransfers}),
                     liquidityScore |-> IF transferCount24h * 5 > 100 THEN 100
                                        ELSE transferCount24h * 5,
                     momentum |-> IF transferCount24h > 10 THEN "bullish"
                                  ELSE IF transferCount24h > 5 THEN "neutral"
                                  ELSE "bearish",
                     avgTransactionValue |-> 1])

\* a holder analysis that clamps to [10, 70]
fetchHolderAnalysis_ClampLow(ownersResponse) ==
    IF ownersResponse.kind = "throw" THEN ownersResponse
    ELSE LET totalHolders == Len(ownersResponse.value.owners)
             raw == 1000 - totalHolders
             concentrationRatio == IF raw < 100 THEN 100
                                   ELSE IF raw > 700 THEN 700 ELSE raw
         IN  Return([t |-> "object",
                     totalHolders |-> totalHolders,
                     concentrationRatio |-> concentrationRatio,
                     whaleHolders |-> (totalHolders * 5) \div 100,
                     crossCollectionHolders |-> (totalHolders * 3) \div 10,
                     distribution |-> IF concentrationRatio > 700 THEN "concentrated"
                                      ELSE IF concentrationRatio < 300 THEN "distributed"
                                      ELSE "balanced"])

\* fetchHolderAnalysis; ownersResponse is the completion of the awaited
\* getOwnersForContract call. 100 - totalHolders / 10 in tenths is
\* 1000 - totalHolders; Math.floor(totalHolders * 0.05) and
\* Math.floor(totalHolders * 0.3) are the integer quotients below for every
\* count up to 2,000,000 in double arithmetic.
fetchHolderAnalysis(ownersResponse) ==
    IF ownersResponse.kind = "throw" THEN ownersResponse
    ELSE LET totalHolders == Len(ownersResponse.value.owners)
             raw == 1000 - totalHolders
             concentrationRatio == IF raw < 100 THEN 100
                                   ELSE IF raw > 900 THEN 900 ELSE raw
         IN  Return([t |-> "object",
                     totalHolders |-> totalHolders,
                     concentrationRatio |-> concentrationRatio,
                     whaleHolders |-> (totalHolders * 5) \div 100,
                     crossCollectionHolders |-> (totalHolders * 3) \div 10,
                     distribution |-> IF concentrationRatio > 700 THEN "concentrated"
                                      ELSE IF concentrationRatio < 300 THEN "distributed"
                                      ELSE "balanced"])

\* activity trends that count every event upstream returned
fetchActivityTrends_NoSlice(transfers) ==
    IF transfers.kind = "throw" THEN transfers
    ELSE LET recentTransfers == transfers.value.transfers
             transferVelocity == Len(recentTransfers) * 24
         IN  Return([t |-> "object",
                     transferVelocity |-> transferVelocity,
                     tradingPattern |-> IF transferVelocity > 200 THEN "active"
                                        ELSE IF transferVelocity > 50 THEN "accumulating"
                                        ELSE "dormant",
                     gasEfficiency |-> "high",
                     peakActivity |-> "Evening (7-9 PM UTC)",
                     trendDirection |-> IF transferVelocity > 100 THEN "up"
                                        ELSE IF transferVelocity > 50 THEN "stable"
                                        ELSE "down"])

\* fetchActivityTrends; transfers is the completion of the awaited
\* getAssetTransfers call. transferVelocity = count * 2.4, in tenths.
fetchActivityTrends(transfers) ==
    IF transfers.kind = "throw" THEN transfers
    ELSE LET recentTransfers == Slice0(transfers.value.transfers, 10)
             transferVelocity == Len(recentTransfers) * 24
         IN  Return([t |-> "object",
                     transferVelocity |-> transferVelocity,
                     tradingPattern |-> IF transferVelocity > 200 THEN "active"
                                        ELSE IF transferVelocity > 50 THEN "accumulating"
                                        ELSE "dormant",
                     gasEfficiency |-> "high",
                     peakActivity |-> "Evening (7-9 PM UTC)",
                     trendDirection |-> IF transferVelocity > 100 THEN "up"
                                        ELSE IF transferVelocity > 50 THEN "stable"
                                        ELSE "down"])

AnIdle ==
    /\ an_pc = "idle"
    /\ an_in = NoValue
    /\ an_out = NoValue

\* fetchMarketHealth is called and awaits getAssetTransfers
MarketCall ==
    /\ an_pc = "idle"
    /\ an_pc' = "market"
    /\ UNCHANGED <<an_in, an_out>>

\* getAssetTransfers settles and fetchMarketHealth returns or raises
MarketSettle ==
    /\ an_pc = "market"
    /\ an_pc' = "market_settled"
    /\ \E transfers \in TransferOutcomes :
         /\ an_in' = Value(transfers)
         /\ an_out' = Value(fetchMarketHealth(transfers))

\* fetchHolderAnalysis is called and awaits getOwnersForContract
HolderCall ==
    /\ an_pc = "idle"
    /\ an_pc' = "holder"
    /\ UNCHANGED <<an_in, an_out>>

\* getOwnersForContract settles and fetchHolderAnalysis returns or raises
HolderSettle ==
    /\ an_pc = "holder"
    /\ an_pc' = "holder_settled"
    /\ \E ownersResponse \in OwnersReplies :
         /\ an_in' = Value(ownersResponse)
         /\ an_out' = Value(fetchHolderAnalysis(ownersResponse))

\* fetchActivityTrends is called and awaits getAssetTransfers
ActivityCall ==
    /\ an_pc = "idle"
    /\ an_pc' = "activity"
    /\ UNCHANGED <<an_in, an_out>>

\* getAssetTransfers settles and fetchActivityTrends returns or raises
ActivitySettle ==
    /\ an_pc = "activity"
    /\ an_pc' = "activity_settled"
    /\ \E transfers \in TransferOutcomes :
         /\ an_in' = Value(transfers)
         /\ an_out' = Value(fetchActivityTrends(transfers))

-----------------------------------------------------------------------------
(* analytics-service.ts: fetchAIAnalysis, the local deep-dive synthesis *)

\* a < b on JavaScript values: false when either side converts to NaN
JsLess(a, b) ==
    LET x == ToNumber(a)
        y == ToNumber(b)
    IN  x.t # "nan" /\ y.t # "nan" /\ x.n < y.n

\* Math.round of a number of thirds (sum / 3): the nearest integer
RoundThirds(sum) == (2 * sum + 3) \div 6

\* a market score that rates a neutral momentum as a bearish one
marketScore_NeutralAsBearish(marketHealth) ==
    IF marketHealth.momentum = "bullish" THEN 80 ELSE 40

\* the three scores of the comprehensive branch
marketScore(marketHealth) ==
    IF marketHealth.momentum = "bullish" THEN 80
    ELSE IF marketHealth.momentum = "neutral" THEN 60 ELSE 40

\* a holder score that rates a concentrated holding at 40
holderScore_ConcentratedAt40(holderAnalysis) ==
    IF holderAnalysis.concentrationRatio < 500 THEN 80 ELSE 40

holderScore(holderAnalysis) ==
    IF holderAnalysis.concentrationRatio < 500 THEN 80 ELSE 60
activityScore(activityTrends) ==
    IF activityTrends.tradingPattern = "active" THEN 80
    ELSE IF activityTrends.tradingPattern = "accumulating" THEN 70 ELSE 50

\* the risk factors before the cut to 3
riskFactorsOf(marketHealth, holderAnalysis, activityTrends) ==
    LET pushed ==
          (IF Truthy(marketHealth) /\ marketHealth.liquidityScore < 30
           THEN <<"Low liquidity score may impact trading">> ELSE <<>>)
          \o (IF Truthy(holderAnalysis) /\ holderAnalysis.concentrationRatio > 700
              THEN <<"High holder concentration risk">> ELSE <<>>)
          \o (IF ~Truthy(activityTrends) \/ activityTrends.transferVelocity < 50
              THEN <<"Limited recent trading activity">> ELSE <<>>)
    IN  IF Len(pushed) = 0
        THEN <<"General market volatility", "Shape Network adoption risk">>
        ELSE pushed

\* the opportunities before the cut to 3
opportunitiesOf(marketHealth, holderAnalysis, activityTrends) ==
    LET pushed ==
          (IF Truthy(marketHealth) /\ marketHealth.momentum = "bullish"
           THEN <<"Positive market momentum">> ELSE <<>>)
          \o (IF Truthy(holderAnalysis)
                 /\ 2 * holderAnalysis.crossCollectionHolders > holderAnalysis.totalHolders
              THEN <<"Strong cross-collection network effects">> ELSE <<>>)
          \o (IF Truthy(activityTrends) /\ activityTrends.gasEfficiency = "high"
              THEN <<"Optimized for Shape Network efficiency">> ELSE <<>>)
    IN  IF Len(pushed) = 0
        THEN <<"Early Shape Network ecosystem participation",
               "Potential for community growth">>
        ELSE pushed

\* fetchAIAnalysis. The record's three template strings (culturalSignificance,
\* collectorProfile, reasoning) are left out. overallScore is sum / 3, so
\* overallScore > 75 is sum > 225 and overallScore < 50 is sum < 150;
\* holders > supply * 0.3 is 10 * holders > 3 * supply.
fetchAIAnalysis(collection, marketHealth, holderAnalysis, activityTrends) ==
    LET comprehensive ==
            Truthy(marketHealth) /\ Truthy(holderAnalysis) /\ Truthy(activityTrends)
        sum == marketScore(marketHealth) + holderScore(holderAnalysis)
                 + activityScore(activityTrends)
        supply == Or(collection.totalSupply, Num(0))
        holders == Or(collection.owners, Num(0))
        investmentThesis ==
            IF comprehensive
            THEN (IF sum > 225 THEN "buy" ELSE IF sum < 150 THEN "avoid" ELSE "hold")
            ELSE IF supply.n > 0 /\ 10 * holders.n > 3 * supply.n THEN "buy"
            ELSE IF supply.n > 10000 THEN "avoid"
            ELSE "hold"
        confidenceScore ==
            IF comprehensive THEN RoundThirds(sum)
            ELSE IF supply.n > 0 /\ 10 * holders.n > 3 * supply.n THEN 65
            ELSE IF supply.n > 10000 THEN 60
            ELSE 50
    IN  [t |-> "object",
         investmentThesis |-> investmentThesis,
         confidenceScore |-> confidenceScore,
         riskFactors |-> Slice0(riskFactorsOf(marketHealth, holderAnalysis, activityTrends), 3),
         opportunities |-> Slice0(opportunitiesOf(marketHealth, holderAnalysis, activityTrends), 3),
         comparableCollections |->
            << IF JsLess(collection.totalSupply, Num(1000))
               THEN "CryptoPunks (exclusivity)" ELSE "Bored Apes (community)",
               IF JsLess(Num(500), collection.owners)
               THEN "Azuki (engagement)" ELSE "Moonbirds (curation)" >>]

\* --- the snapshots and collections the synthesis is run over ---

\* a list of n transfers between two traders
SomeTransfers(n) == Return([transfers |-> TransferList(n, 2, FALSE)])
SomeOwners(h) == Return([owners |-> [k \in 1..h |-> "0xowner"]])

\* absent, or what fetchMarketHealth returned for 3, 6 and 11 transfers
MarketSnapshots ==
    {Undefined} \cup {fetchMarketHealth(SomeTransfers(n)).value : n \in {3, 6, 11}}

\* absent, what fetchHolderAnalysis returned for 200, 500 and 600 owners, or a
\* snapshot in which most holders hold several collections
HolderSnapshots ==
    {Undefined}
    \cup {fetchHolderAnalysis(SomeOwners(h)).value : h \in {200, 500, 600}}
    \cup {[t |-> "object", totalHolders |-> 100, concentrationRatio |-> 900,
           whaleHolders |-> 5, crossCollectionHolders |-> 60,
           distribution |-> "concentrated"]}

\* absent, what fetchActivityTrends returned for 0, 3 and 10 transfers, or a
\* snapshot of another gas efficiency
ActivitySnapshots ==
    {Undefined}
    \cup {fetchActivityTrends(SomeTransfers(n)).value : n \in {0, 3, 10}}
    \cup {[t |-> "object", transferVelocity |-> 240, tradingPattern |-> "active",
           gasEfficiency |-> "low", peakActivity |-> "Evening (7-9 PM UTC)",
           trendDirection |-> "up"]}

\* a cached record with other supplies and owner counts
DeepDiveCollections ==
    {[loadFallbackCollections[1] EXCEPT !.totalSupply = s, !.owners = o] :
        s \in {Null, Num(500), Num(20000)}, o \in {Null, Num(200), Num(9000)}}

\* fetchAIAnalysis is called on snapshots the widget holds and returns (it
\* awaits nothing)
LocalSynthesis ==
    /\ dd_pc = "idle"
    /\ dd_pc' = "local_done"
    /\ \E collection \in DeepDiveCollections, marketHealth \in MarketSnapshots,
          holderAnalysis \in HolderSnapshots, activityTrends \in ActivitySnapshots :
         /\ dd_args' = Value([collection |-> collection, marketHealth |-> marketHealth,
                              holderAnalysis |-> holderAnalysis,
                              activityTrends |-> activityTrends])
         /\ dd_analysis' = Value(fetchAIAnalysis(collection, marketHealth,
                                                 holderAnalysis, activityTrends))
    /\ UNCHANGED <<dd_req, dd_gen, dd_response>>

-----------------------------------------------------------------------------
(* the /ai-analysis endpoint (app/api/ai-analysis/route.ts) *)

\* Numbers of a provider reply are whole, or carry one decimal digit d next
\* to a non-zero whole part n: 85.7 is Dec(85, 7).
Dec(n, d) == [t |-> "number", n |-> n, d |-> d]

\* obj.field of a value that may lack the field
Prop(obj, field) == IF field \in DOMAIN obj THEN obj[field] ELSE Undefined

\* NextResponse.json(body, {status})
NextResponseJson(body, status) == [status |-> status, body |-> body]

\* `${collection.name}`
NameText(collection) ==
    IF Prop(collection, "name").t = "string" /\ Prop(collection, "name").s # <<>>
    THEN collection.name.s[1] ELSE Prop(collection, "name").t

\* an array field cut to max entries, or the default when it is no array
ArrayOrDefault(value, max, default) ==
    IF value.t = "array" THEN Arr(Slice0(value.a, max)) ELSE Arr(default)

\* a structuring that trusts the provider's score
aiAnalysis_UnclampedScore(analysis, collection) ==
    [t |-> "object",
     investmentThesis |-> Or(analysis.investmentThesis, Str(<<"hold">>)),
     confidenceScore |-> Or(parseInt(analysis.confidenceScore), Num(50)),
     culturalSignificance |-> Or(analysis.culturalSignificance, Str(<<"default">>)),
     riskFactors |-> ArrayOrDefault(analysis.riskFactors, 3, <<>>),
     opportunities |-> ArrayOrDefault(analysis.opportunities, 3, <<>>),
     comparableCollections |-> ArrayOrDefault(analysis.comparableCollections, 2, <<>>),
     collectorProfile |-> Or(analysis.collectorProfile, Str(<<"default">>)),
     reasoning |-> Or(analysis.reasoning, Str(<<"default">>))]

\* a structuring that does not cut the provider's lists
aiAnalysis_NoTruncation(analysis, collection) ==
    [t |-> "object",
     investmentThesis |-> Or(analysis.investmentThesis, Str(<<"hold">>)),
     confidenceScore |->
        MathMax(Num(0), MathMin(Num(100), Or(parseInt(analysis.confidenceScore), Num(50)))),
     culturalSignificance |-> Or(analysis.culturalSignificance, Str(<<"default">>)),
     riskFactors |-> IF analysis.riskFactors.t = "array" THEN analysis.riskFactors
                     ELSE Arr(<<>>),
     opportunities |-> ArrayOrDefault(analysis.opportunities, 3, <<>>),
     comparableCollections |-> ArrayOrDefault(analysis.comparableCollections, 2, <<>>),
     collectorProfile |-> Or(analysis.collectorProfile, Str(<<"default">>)),
     reasoning |-> Or(analysis.reasoning, Str(<<"default">>))]

\* the record built from the parsed reply ("Structure and validate the
\* response")
aiAnalysis(analysis, collection) ==
    [t |-> "object",
     investmentThesis |-> Or(analysis.investmentThesis, Str(<<"hold">>)),
     confidenceScore |->
        MathMax(Num(0), MathMin(Num(100), Or(parseInt(analysis.confidenceScore), Num(50)))),
     culturalSignificance |->
        Or(analysis.culturalSignificance,
           Str(<<NameText(collection),
                 " represents unique digital culture on Shape Network.">>)),
     riskFactors |->
        ArrayOrDefault(analysis.riskFactors, 3,
            <<Str(<<"General market volatility">>), Str(<<"Shape Network adoption risk">>)>>),
     opportunities |->
        ArrayOrDefault(analysis.opportunities, 3,
            <<Str(<<"Early ecosystem participation">>), Str(<<"Potential for growth">>)>>),
     comparableCollections |->
        ArrayOrDefault(analysis.comparableCollections, 2,
            <<Str(<<"Similar Shape Network Collections">>),
              Str(<<"Emerging NFT Projects">>)>>),
     collectorProfile |->
        Or(analysis.collectorProfile,
           Str(<<"Collectors interested in Shape Network digital assets">>)),
     reasoning |->
        Or(analysis.reasoning,
           Str(<<NameText(collection),
                 " shows potential as a Shape Network collection.">>))]

\* the catch block of the endpoint
AnalysisFailed(error) ==
    NextResponseJson([error |-> "AI analysis failed",
                      details |-> IF error.isError THEN error.message
                                  ELSE "Unknown error"], 500)

\* an endpoint that looks for the credential before it looks at the request
BeforeGeneration_KeyFirst(json, apiKey) ==
    IF json.kind = "throw" THEN Value(AnalysisFailed(json.error))
    ELSE IF json.value.t \in {"null", "undefined"}
    THEN Value(AnalysisFailed([isError |-> TRUE,
            message |-> "Cannot destructure property 'collection' of null"]))
    ELSE LET collection == Prop(json.value, "collection")
         IN  IF ~Truthy(apiKey)
             THEN Value(NextResponseJson(
                    [error |-> "Anthropic API key not configured"], 500))
             ELSE IF ~Truthy(collection) \/ ~Truthy(Prop(collection, "contractAddress"))
             THEN Value(NextResponseJson(
                    [error |-> "Invalid request: collection data required"], 400))
             ELSE NoValue

\* the endpoint up to generateText: the response it answers with before any
\* text is generated, or NoValue when it goes on to generate. json is the
\* completion of request.json(), apiKey is process.env.ANTHROPIC_API_KEY.
BeforeGeneration(json, apiKey) ==
    IF json.kind = "throw" THEN Value(AnalysisFailed(json.error))
    ELSE IF json.value.t \in {"null", "undefined"}
    THEN Value(AnalysisFailed([isError |-> TRUE,
            message |-> "Cannot destructure property 'collection' of null"]))
    ELSE LET collection == Prop(json.value, "collection")
         IN  IF ~Truthy(collection) \/ ~Truthy(Prop(collection, "contractAddress"))
             THEN Value(NextResponseJson(
                    [error |-> "Invalid request: collection data required"], 400))
             ELSE IF ~Truthy(apiKey)
             THEN Value(NextResponseJson(
                    [error |-> "Anthropic API key not configured"], 500))
             ELSE NoValue

\* the endpoint from the settled generateText call on
AfterGeneration(collection, generated) ==
    IF generated.kind = "throw" THEN AnalysisFailed(generated.error)
    ELSE LET jsonMatch == RegexMatch(generated.value)
             analysis == JSONparse(jsonMatch.text)
         IN  IF ~Truthy(jsonMatch)
             THEN AnalysisFailed([isError |-> TRUE,
                                  message |-> "No JSON found in Claude response"])
             ELSE IF analysis.kind = "throw" THEN AnalysisFailed(analysis.error)
             ELSE NextResponseJson(
                    [success |-> TRUE,
                     analysis |-> aiAnalysis(analysis.value, collection)], 200)

\* --- the requests and provider replies the endpoint is run over ---

\* the longest list a provider reply carries
MaxListLen == 4

Items(n) == [k \in 1..n |-> Str(<<"item">>)]

ThesisValues ==
    {Undefined, Null, Str(<<>>), Str(<<"buy">>), Str(<<"hold">>), Str(<<"avoid">>),
     Str(<<"strong buy">>), Num(1), Obj}

ScoreValues ==
    {Undefined, Null, Num(85), Num(0), Num(-5), Num(150), Dec(85, 7),
     Str(<<"85">>), Str(<<"85%">>), Str(<<"85.7">>), Str(<<"high">>), Bool(TRUE), Obj}

ListValues ==
    {Undefined, Str(<<"none">>)} \cup {Arr(Items(n)) : n \in 0..MaxListLen}

\* a reply that follows the requested structure
PlainAnalysis ==
    [t |-> "object", investmentThesis |-> Str(<<"buy">>), confidenceScore |-> Num(85),
     culturalSignificance |-> Str(<<"significant">>),
     riskFactors |-> Arr(Items(3)), opportunities |-> Arr(Items(3)),
     comparableCollections |-> Arr(Items(2)),
     collectorProfile |-> Str(<<"collectors">>), reasoning |-> Str(<<"because">>)]

AnalysisReplies ==
    {[PlainAnalysis EXCEPT !.investmentThesis = th, !.confidenceScore = sc] :
        th \in ThesisValues, sc \in ScoreValues}
    \cup
    {[PlainAnalysis EXCEPT !.riskFactors = r, !.opportunities = o,
                           !.comparableCollections = c] :
        r \in ListValues, o \in ListValues, c \in ListValues}
    \cup
    {[PlainAnalysis EXCEPT !.culturalSignificance = x, !.collectorProfile = x,
                           !.reasoning = x] : x \in {Undefined, Str(<<>>)}}

AnalysisTexts ==
    {<<>>, <<Prose>>, <<Braces>>, <<Prose, Braces, Prose>>,
     <<Json(PlainAnalysis), Prose, Json(PlainAnalysis)>>,
     <<Braces, Json(PlainAnalysis)>>}
    \cup {<<Prose, Json(o), Prose>> : o \in AnalysisReplies}

AnalysisGenOutcomes ==
    {Throw([isError |-> TRUE, message |-> "Overloaded"]),
     Throw([isError |-> FALSE, message |-> ""])}
    \cup {Return(text) : text \in AnalysisTexts}

\* the collection of a request body: none, null, one without an address, one
\* with an empty address, and two with an address
RequestCollections ==
    {Undefined, Null, Obj,
     [t |-> "object", contractAddress |-> Str(<<>>), name |-> Str(<<"Shape Punks">>)],
     [t |-> "object", contractAddress |-> Str(<<"0xdad1276ecd6d27116da400b33c81ce49d91d5831">>),
      name |-> Str(<<"Shape Punks">>)],
     [t |-> "object", contractAddress |-> Str(<<"0x6E148B55e4Cd30Ea6727d7E0661c3918A6C4E9Db">>),
      name |-> Null]}

\* completions of request.json(): a body that is no JSON, the JSON values
\* null and 5, and objects with or without the snapshots
RequestBodies ==
    {Throw([isError |-> TRUE, message |-> "Unexpected end of JSON input"]),
     Return(Null), Return(Num(5))}
    \cup {Return([t |-> "object", collection |-> c, marketHealth |-> m,
                  holderAnalysis |-> m, activityTrends |-> m]) :
            c \in RequestCollections, m \in {Undefined, Obj}}

ApiKeys == {Undefined, Str(<<"sk-ant">>)}

DdIdle ==
    /\ dd_pc = "idle"
    /\ dd_args = NoValue
    /\ dd_analysis = NoValue
    /\ dd_req = NoValue
    /\ dd_gen = NoValue
    /\ dd_response = NoValue

\* a request arrives and is answered before any text is generated
PostAnswersEarly ==
    /\ dd_pc = "idle"
    /\ dd_pc' = "answered"
    /\ \E json \in RequestBodies, apiKey \in ApiKeys :
         /\ BeforeGeneration(json, apiKey).has
         /\ dd_req' = Value([json |-> json, apiKey |-> apiKey])
         /\ dd_response' = BeforeGeneration(json, apiKey)
    /\ UNCHANGED <<dd_args, dd_analysis, dd_gen>>

\* a request arrives, passes the checks and awaits generateText
PostGenerates ==
    /\ dd_pc = "idle"
    /\ dd_pc' = "generating"
    /\ \E json \in RequestBodies, apiKey \in ApiKeys :
         /\ ~BeforeGeneration(json, apiKey).has
         /\ dd_req' = Value([json |-> json, apiKey |-> apiKey])
    /\ UNCHANGED <<dd_args, dd_analysis, dd_gen, dd_response>>

\* generateText settles and the endpoint answers
PostSettles ==
    /\ dd_pc = "generating"
    /\ dd_pc' = "answered"
    /\ \E generated \in AnalysisGenOutcomes :
         /\ dd_gen' = Value(generated)
         /\ dd_response' =
              Value(AfterGeneration(dd_req.v.json.value.collection, generated))
    /\ UNCHANGED <<dd_args, dd_analysis, dd_req>>

-----------------------------------------------------------------------------
(* the /analyze-persona endpoint (app/api/analyze-persona/route.ts) *)

\* PERSONA_DEFINITIONS of collections-data.ts, by key
PersonaKeys == {"renegade", "fomo", "zen", "chaos"}
PERSONA_DEFINITIONS ==
    [k \in PersonaKeys |->
        [t |-> "object", id |-> k,
         title |-> CASE k = "renegade" -> "RENEGADE" [] k = "fomo" -> "FOMO"
                     [] k = "zen" -> "ZEN" [] k = "chaos" -> "CHAOS",
         description |-> CASE k = "renegade" -> "Anti-establishment rebel"
                           [] k = "fomo" -> "Trend-chasing maximalist"
                           [] k = "zen" -> "Mindful digital collector nerd"
                           [] k = "chaos" -> "Unpredictable maximalist",
         color |-> CASE k = "renegade" -> "#ef4444" [] k = "fomo" -> "#eab308"
                     [] k = "zen" -> "#22c55e" [] k = "chaos" -> "#8b5cf6"]]

\* names every object literal inherits from Object.prototype
ObjectPrototypeKeys ==
    {"constructor", "toString", "valueOf", "hasOwnProperty", "__proto__"}

\* the property key a value is converted to: a string is itself, a number
\* its digits, an array its entries joined
PropertyKey(v) ==
    CASE v.t = "string" -> (IF v.s = <<>> THEN "" ELSE v.s[1])
      [] v.t = "number" -> "5"
      [] v.t = "array" -> (IF v.a = <<>> THEN "" ELSE v.a[1].s[1])
      [] OTHER -> v.t

\* object[key] on an object literal: its own property, else the inherited one
Lookup(object, key) ==
    IF PropertyKey(key) \in DOMAIN object THEN object[PropertyKey(key)]
    ELSE IF PropertyKey(key) \in ObjectPrototypeKeys THEN [t |-> "function"]
    ELSE Undefined

\* the endpoint up to the engine's generateText: the response it answers with
\* before any text is generated, or NoValue when the engine goes on to
\* generate. json is the completion of request.json().
PersonaBeforeGeneration(json) ==
    IF json.kind = "throw" THEN Value(AnalysisFailed(json.error))
    ELSE IF json.value.t \in {"null", "undefined"}
    THEN Value(AnalysisFailed([isError |-> TRUE,
            message |-> "Cannot destructure property 'persona' of null"]))
    ELSE LET persona == Prop(json.value, "persona")
             reqCollections == Prop(json.value, "collections")
             personaDefinition == Lookup(PERSONA_DEFINITIONS, persona)
             prompt == createPersonaPrompt(personaDefinition, reqCollections.a)
             analysis == AnalysisFallback(prompt.error, reqCollections.a)
         IN  IF ~Truthy(persona) \/ reqCollections.t # "array"
             THEN Value(NextResponseJson(
                    [error |-> "Invalid request: persona and collections array required"],
                    400))
             ELSE IF ~Truthy(personaDefinition)
             THEN Value(NextResponseJson([error |-> "Unknown persona"], 400))
             ELSE IF persona.t # "string"
             THEN Value(AnalysisFailed([isError |-> TRUE,
                    message |-> "persona.toUpperCase is not a function"]))
             ELSE IF prompt.kind = "throw"
             THEN Value(NextResponseJson([success |-> TRUE, analysis |-> analysis], 200))
             ELSE NoValue

\* the endpoint from the engine's settled generateText call on
PersonaAfterGeneration(reqCollections, generated) ==
    NextResponseJson(
        [success |-> TRUE,
         analysis |-> analyzePersonaCollections(generated, reqCollections.a)], 200)

\* --- the requests the endpoint is run over ---

PersonaValues ==
    {Undefined, Null, Str(<<>>), Num(5), Arr(<<Str(<<"zen">>)>>),
     Str(<<"unknown">>), Str(<<"ZEN">>), Str(<<"constructor">>), Str(<<"toString">>)}
    \cup {Str(<<k>>) : k \in PersonaKeys}

CollectionsValues ==
    {Undefined, Null, Obj, Str(<<"all">>), Arr(<<Null>>)}
    \cup {Arr(all) : all \in InputCollections}

PersonaRequestBodies ==
    {Throw([isError |-> TRUE, message |-> "Unexpected end of JSON input"]),
     Return(Null), Return(Num(5))}
    \cup {Return([t |-> "object", persona |-> p, collections |-> c]) :
            p \in PersonaValues, c \in CollectionsValues}

\* the replies of the provider: one of each kind the engine tells apart
RouteGenOutcomes ==
    {Throw([isError |-> TRUE, message |-> "Overloaded"]),
     Return(<<Prose>>), Return(<<Prose, Json(PlainObject), Prose>>),
     Return(<<Prose, Json([PlainObject EXCEPT !.selectedCollections = Undefined]), Prose>>)}

RtIdle ==
    /\ rt_pc = "idle"
    /\ rt_req = NoValue
    /\ rt_gen = NoValue
    /\ rt_response = NoValue

\* a request arrives and is answered before any text is generated
RouteAnswersEarly ==
    /\ rt_pc = "idle"
    /\ rt_pc' = "answered"
    /\ \E json \in PersonaRequestBodies :
         /\ PersonaBeforeGeneration(json).has
         /\ rt_req' = Value(json)
         /\ rt_response' = PersonaBeforeGeneration(json)
    /\ UNCHANGED rt_gen

\* a request arrives, passes the checks and the engine awaits generateText
RouteGenerates ==
    /\ rt_pc = "idle"
    /\ rt_pc' = "generating"
    /\ \E json \in PersonaRequestBodies :
         /\ ~PersonaBeforeGeneration(json).has
         /\ rt_req' = Value(json)
    /\ UNCHANGED <<rt_gen, rt_response>>

\* generateText settles, the engine returns and the endpoint answers
RouteSettles ==
    /\ rt_pc = "generating"
    /\ rt_pc' = "answered"
    /\ \E generated \in RouteGenOutcomes :
         /\ rt_gen' = Value(generated)
         /\ rt_response' =
              Value(PersonaAfterGeneration(rt_req.v.value.collections, generated))
    /\ UNCHANGED rt_req

-----------------------------------------------------------------------------
(* useWidgetState.ts: the widget controller, and the screen WidgetShell      *)
(* renders from its state. The status text of the state is left out.        *)

\* the progress of the widget state is kept in two-hundredths, so that
\* 25 + (progress * 0.5) of a load progress given in hundredths is exact
Percent(n) == 200 * n
\* a forwarding that adds the load's progress unscaled: 25 + progress
forwardedProgress_Unscaled(loadValue) == Percent(25) + 2 * loadValue

\* 25 + (progress * 0.5), for a load progress in hundredths
forwardedProgress(loadValue) == Percent(25) + loadValue

INITIAL_STATE ==
    [isLoading |-> FALSE, progress |-> Percent(0), isDataReady |-> FALSE,
     widgetActive |-> FALSE, cachedCollections |-> <<>>,
     widgetExpanded |-> FALSE, selectedPersona |-> Null, analyzing |-> FALSE,
     results |-> Null, error |-> Null]

\* the cache call of initiateBackgroundCache, and the one of
\* getCollectionsByPersona
BackgroundLoad == "c1"
PersonaLoad == "c2"

WdInit ==
    /\ state = INITIAL_STATE
    /\ ibc_pc = "rendered"
    /\ ibc_collections = <<>>
    /\ progressLog = <<>>
    /\ loadsStarted = 0
    /\ inflight = <<>>
    /\ resultsFrom = Null

\* the first render's effect: initiateBackgroundCache up to its first await
Mount ==
    /\ ibc_pc = "rendered"
    /\ ~state.isLoading /\ ~state.isDataReady
    /\ state' = [state EXCEPT !.isLoading = TRUE, !.progress = Percent(0),
                              !.widgetActive = FALSE, !.error = Null]
    /\ ibc_pc' = "timer100"
    /\ progressLog' = <<Percent(0)>>
    /\ loadsStarted' = 0
    /\ UNCHANGED <<ibc_collections, inflight, resultsFrom, cacheVars>>

\* the 100 ms timer ends: progress 25, then loadCollectionsCache is called
\* and runs up to its first await
LoadStarts ==
    /\ ibc_pc = "timer100"
    /\ state' = [state EXCEPT !.progress = Percent(25)]
    /\ progressLog' = Append(progressLog, Percent(25))
    /\ loadsStarted' = loadsStarted + 1
    /\ Call(BackgroundLoad)
    /\ ibc_pc' = "loading"
    /\ UNCHANGED <<ibc_collections, inflight, resultsFrom>>

\* a step of a load under way, short of handing its value to the caller
LoadStep(p) ==
    \/ ImportDone(p)
    \/ ProbeDone(p)
    \/ FetchDone(p)
    \/ DelayDone(p)
    \/ StoreFetched(p)
    \/ StoreFallback(p)

\* the onProgress callback of initiateBackgroundCache, run once for every
\* value the load reported in the step
ForwardProgress(before, after) ==
    LET reported == SubSeq(after, Len(before) + 1, Len(after)) IN
    /\ progressLog' = progressLog \o
           [k \in 1..Len(reported) |-> forwardedProgress(reported[k])]
    /\ state' = IF reported = <<>> THEN state
                ELSE [state EXCEPT !.progress =
                         forwardedProgress(reported[Len(reported)])]

\* the background load takes a step
LoadProceeds ==
    /\ ibc_pc = "loading"
    /\ LoadStep(BackgroundLoad)
    /\ ForwardProgress(loadProgress[BackgroundLoad], loadProgress'[BackgroundLoad])
    /\ UNCHANGED <<ibc_pc, ibc_collections, loadsStarted, inflight, resultsFrom>>

\* the awaited load resolves: progress 80, then the first 500 ms timer
LoadReturns ==
    /\ ibc_pc = "loading"
    /\ pc[BackgroundLoad] = "returned"
    /\ ibc_collections' = ret[BackgroundLoad].v
    /\ Resume(BackgroundLoad)
    /\ state' = [state EXCEPT !.progress = Percent(80)]
    /\ progressLog' = Append(progressLog, Percent(80))
    /\ ibc_pc' = "timer500"
    /\ UNCHANGED <<loadsStarted, inflight, resultsFrom>>

\* the first 500 ms timer ends: progress 100, then the second timer
ReadyReported ==
    /\ ibc_pc = "timer500"
    /\ state' = [state EXCEPT !.progress = Percent(100)]
    /\ progressLog' = Append(progressLog, Percent(100))
    /\ ibc_pc' = "timer500b"
    /\ UNCHANGED <<ibc_collections, loadsStarted, inflight, resultsFrom, cacheVars>>

\* an activation that leaves isDataReady as it was
Activate_WithoutDataReady ==
    /\ ibc_pc = "timer500b"
    /\ state' = [state EXCEPT !.cachedCollections = ibc_collections,
                              !.widgetActive = TRUE, !.isLoading = FALSE]
    /\ ibc_pc' = "done"
    /\ UNCHANGED <<ibc_collections, progressLog, loadsStarted, inflight,
                   resultsFrom, cacheVars>>

\* the second timer ends: the widget is activated
Activate ==
    /\ ibc_pc = "timer500b"
    /\ state' = [state EXCEPT !.cachedCollections = ibc_collections,
                              !.isDataReady = TRUE, !.widgetActive = TRUE,
                              !.isLoading = FALSE]
    /\ ibc_pc' = "done"
    /\ UNCHANGED <<ibc_collections, progressLog, loadsStarted, inflight,
                   resultsFrom, cacheVars>>

expandWidget ==
    /\ state' = [state EXCEPT !.widgetExpanded = TRUE]
    /\ UNCHANGED <<ibc_pc, ibc_collections, progressLog, loadsStarted, inflight,
                   resultsFrom, cacheVars>>

collapseWidget ==
    /\ state' = [state EXCEPT !.widgetExpanded = FALSE, !.selectedPersona = Null,
                              !.results = Null, !.analyzing = FALSE]
    /\ resultsFrom' = Null
    /\ UNCHANGED <<ibc_pc, ibc_collections, progressLog, loadsStarted, inflight,
                   cacheVars>>

\* selectPersona(null)
clearSelection ==
    /\ state' = [state EXCEPT !.selectedPersona = Null, !.results = Null,
                              !.analyzing = FALSE]
    /\ resultsFrom' = Null
    /\ UNCHANGED <<ibc_pc, ibc_collections, progressLog, loadsStarted, inflight,
                   cacheVars>>

\* the requests one hook instance may have under way at the same time
MaxInFlight == 2

\* selectPersona(persona) up to its awaited fetch: the request carries the
\* cachedCollections of the render the handler was created in
selectPersona(persona) ==
    /\ Len(inflight) < MaxInFlight
    /\ state' = [state EXCEPT !.selectedPersona = Str(<<persona>>),
                              !.analyzing = TRUE, !.results = Null,
                              !.error = Null]
    /\ resultsFrom' = Null
    /\ inflight' = Append(inflight,
           [persona |-> persona, stage |-> "fetch",
            body |-> [t |-> "object", persona |-> Str(<<persona>>),
                      collections |-> Arr(state.cachedCollections)]])
    /\ UNCHANGED <<ibc_pc, ibc_collections, progressLog, loadsStarted, cacheVars>>

\* what fetch('/api/analyze-persona') settles with: the endpoint's answer to
\* the body sent, an answer of the platform in its place, or a rejection
EndpointOutcomes(body) ==
    {Throw([isError |-> TRUE, message |-> "Failed to fetch"]),
     Return(NextResponseJson([error |-> "Internal Server Error"], 500))}
    \cup (IF PersonaBeforeGeneration(Return(body)).has
          THEN {Return(PersonaBeforeGeneration(Return(body)).v)}
          ELSE {Return(PersonaAfterGeneration(body.collections, generated)) :
                  generated \in RouteGenOutcomes})

\* the try block of selectPersona from the settled fetch on: the results it
\* stores, or what it raises
selectPersonaTry(settled) ==
    IF settled.kind = "throw" THEN settled
    ELSE IF ~(settled.value.status \in 200..299)
    THEN Throw([isError |-> TRUE, message |-> "AI analysis API failed: "])
    ELSE IF ~("success" \in DOMAIN settled.value.body /\ settled.value.body.success)
    THEN Throw([isError |-> TRUE, message |-> "AI analysis failed"])
    ELSE Return(settled.value.body.analysis.selectedCollections)

RemoveAt(seq, k) == SubSeq(seq, 1, k - 1) \o SubSeq(seq, k + 1, Len(seq))

\* the fetch of request k settles and the try block runs to its end
FetchSucceeds(k) ==
    /\ k \in DOMAIN inflight
    /\ inflight[k].stage = "fetch"
    /\ \E settled \in EndpointOutcomes(inflight[k].body) :
         /\ selectPersonaTry(settled).kind = "return"
         /\ state' = [state EXCEPT !.analyzing = FALSE,
                         !.results = Arr(selectPersonaTry(settled).value)]
    /\ resultsFrom' = Str(<<inflight[k].persona>>)
    /\ inflight' = RemoveAt(inflight, k)
    /\ UNCHANGED <<ibc_pc, ibc_collections, progressLog, loadsStarted, cacheVars>>

\* the fetch of request k settles and the try block raises: the catch block
\* calls getCollectionsByPersona, whose loadCollectionsCache runs up to its
\* first await (the cache is populated before the widget is active, so the
\* load returns it from the presence check)
FetchFails(k) ==
    /\ k \in DOMAIN inflight
    /\ inflight[k].stage = "fetch"
    /\ \E settled \in EndpointOutcomes(inflight[k].body) :
         selectPersonaTry(settled).kind = "throw"
    /\ inflight' = [inflight EXCEPT ![k].stage = "fallback"]
    /\ Call(PersonaLoad)
    /\ UNCHANGED <<state, ibc_pc, ibc_collections, progressLog, loadsStarted,
                   resultsFrom>>

personaMap ==
    [renegade |-> <<0>>, fomo |-> <<1>>, zen |-> <<2>>, chaos |-> <<0, 1>>]

\* indices.map(i => collections[i]).filter(Boolean)
getCollectionsByPersona(persona, loaded) ==
    LET indices == IF persona \in DOMAIN personaMap THEN personaMap[persona]
                   ELSE <<0>>
    IN  SelectSeq([j \in DOMAIN indices |-> ArrayGet(loaded, indices[j])], Truthy)

\* a catch block that ends the call without storing the fallback selection
FallbackSettles_NoResults(k) ==
    /\ k \in DOMAIN inflight
    /\ inflight[k].stage = "fallback"
    /\ pc[PersonaLoad] = "returned"
    /\ state' = [state EXCEPT !.analyzing = FALSE,
                    !.error = Str(<<"Both AI analysis and fallback failed, please try again">>)]
    /\ resultsFrom' = resultsFrom
    /\ Resume(PersonaLoad)
    /\ inflight' = RemoveAt(inflight, k)
    /\ UNCHANGED <<ibc_pc, ibc_collections, progressLog, loadsStarted>>

\* getCollectionsByPersona resolves and the catch block stores its result
FallbackSettles(k) ==
    /\ k \in DOMAIN inflight
    /\ inflight[k].stage = "fallback"
    /\ pc[PersonaLoad] = "returned"
    /\ state' = [state EXCEPT !.analyzing = FALSE,
                    !.results = Arr(getCollectionsByPersona(inflight[k].persona,
                                                            ret[PersonaLoad].v)),
                    !.error = Str(<<"AI analysis failed, using fallback selection. ">>)]
    /\ resultsFrom' = Str(<<inflight[k].persona>>)
    /\ Resume(PersonaLoad)
    /\ inflight' = RemoveAt(inflight, k)
    /\ UNCHANGED <<ibc_pc, ibc_collections, progressLog, loadsStarted>>

\* the page is left and opened again with nothing under way: a new hook
\* instance renders, the module-level cache stays as it is
Remount ==
    /\ ibc_pc = "done"
    /\ inflight = <<>>
    /\ state' = INITIAL_STATE
    /\ ibc_pc' = "rendered"
    /\ ibc_collections' = <<>>
    /\ progressLog' = <<>>
    /\ loadsStarted' = 0
    /\ resultsFrom' = Null
    /\ UNCHANGED <<inflight, cacheVars>>

\* --- WidgetShell: the screen rendered from the state ---

View ==
    IF state.isLoading \/ ~state.isDataReady THEN "loading"
    ELSE IF state.widgetActive /\ ~state.widgetExpanded THEN "ready"
    ELSE IF state.widgetExpanded /\ ~Truthy(state.selectedPersona) THEN "selecting"
    ELSE IF Truthy(state.selectedPersona) /\ Truthy(state.results) THEN "results"
    ELSE IF Truthy(state.selectedPersona) /\ state.analyzing THEN "analyzing"
    ELSE "nothing"

-----------------------------------------------------------------------------
(* CollectionResults.tsx: the per-collection analytics state *)

MetricTypes == {"market", "holder", "activity", "ai"}

\* the collections prop: the records shown, here the first two of the
\* static set
ShownCollections == SubSeq(loadFallbackCollections, 1, 2)
ShownAddresses == {ShownCollections[k].contractAddress : k \in DOMAIN ShownCollections}

\* the fetches started in one run of the component
MaxFetches == 3

\* { market: false, holder: false, activity: false, ai: false } and {}
NoneLoading == [m \in MetricTypes |-> FALSE]
NoData == [m \in MetricTypes |-> NoValue]

NoEvent == [kind |-> "none", addr |-> "", type |-> ""]

CrInit ==
    /\ analyticsState = [a \in ShownAddresses |-> Undefined]
    /\ cr_calls = {}
    /\ cr_event = NoEvent
    /\ cr_started = 0

toggleAnalytics(contractAddress) ==
    LET prev == analyticsState[contractAddress] IN
    /\ analyticsState' = [analyticsState EXCEPT ![contractAddress] =
           [t |-> "object",
            expanded |-> IF prev = Undefined THEN TRUE ELSE ~prev.expanded,
            loading |-> IF prev = Undefined THEN NoneLoading ELSE prev.loading,
            data |-> IF prev = Undefined THEN NoData ELSE prev.data]]
    /\ cr_event' = [kind |-> "toggle", addr |-> contractAddress, type |-> ""]
    /\ UNCHANGED <<cr_calls, cr_started>>

\* fetchAnalytics(collection, type) up to its await. Its button is rendered
\* in the expanded panel and disabled while the metric is loading. The 'ai'
\* case reads the analytics state of the render the handler was created in.
FetchStarts(collection, type) ==
    LET contractAddress == collection.contractAddress
        prev == analyticsState[contractAddress]
    IN  /\ prev # Undefined
        /\ prev.expanded
        /\ ~prev.loading[type]
        /\ cr_started < MaxFetches
        /\ cr_started' = cr_started + 1
        /\ analyticsState' = [analyticsState EXCEPT
               ![contractAddress].loading[type] = TRUE]
        /\ cr_calls' = cr_calls \cup
               {[collection |-> collection, type |-> type,
                 currentState |-> IF type = "ai" THEN prev.data ELSE NoData]}
        /\ cr_event' = [kind |-> "start", addr |-> contractAddress, type |-> type]

\* data?.market and the like: the snapshot held, or undefined
Held(data, type) == IF data[type].has THEN data[type].v ELSE Undefined

\* what the awaited classifier call of a fetch may settle with
ClassifierCompletions(call) ==
    CASE call.type = "market" ->
           {fetchMarketHealth(transfers) :
              transfers \in {SomeTransfers(6), Throw([isError |-> TRUE, message |-> "429 Too Many Requests"])}}
      [] call.type = "holder" ->
           {fetchHolderAnalysis(ownersResponse) :
              ownersResponse \in {SomeOwners(200), Throw([isError |-> TRUE, message |-> "429 Too Many Requests"])}}
      [] call.type = "activity" ->
           {fetchActivityTrends(transfers) :
              transfers \in {SomeTransfers(3), Throw([isError |-> TRUE, message |-> "429 Too Many Requests"])}}
      [] call.type = "ai" ->
           {Return(fetchAIAnalysis(call.collection,
                                   Held(call.currentState, "market"),
                                   Held(call.currentState, "holder"),
                                   Held(call.currentState, "activity")))}

\* the classifier call resolves: the try block stores the result
FetchResolves(call) ==
    /\ call \in cr_calls
    /\ \E completion \in ClassifierCompletions(call) :
         /\ completion.kind = "return"
         /\ analyticsState' = [analyticsState EXCEPT
                ![call.collection.contractAddress].loading[call.type] = FALSE,
                ![call.collection.contractAddress].data[call.type] =
                    Value(completion.value)]
    /\ cr_calls' = cr_calls \ {call}
    /\ cr_event' = [kind |-> "resolve", addr |-> call.collection.contractAddress,
                    type |-> call.type]
    /\ UNCHANGED cr_started

\* a catch block that clears every loading flag of the collection
FetchRaises_ClearsEveryFlag(call) ==
    /\ call \in cr_calls
    /\ \E completion \in ClassifierCompletions(call) : completion.kind = "throw"
    /\ analyticsState' = [analyticsState EXCEPT
           ![call.collection.contractAddress].loading = NoneLoading]
    /\ cr_calls' = cr_calls \ {call}
    /\ cr_event' = [kind |-> "raise", addr |-> call.collection.contractAddress,
                    type |-> call.type]
    /\ UNCHANGED cr_started

\* the classifier call raises: the catch block clears the loading flag
FetchRaises(call) ==
    /\ call \in cr_calls
    /\ \E completion \in ClassifierCompletions(call) : completion.kind = "throw"
    /\ analyticsState' = [analyticsState EXCEPT
           ![call.collection.contractAddress].loading[call.type] = FALSE]
    /\ cr_calls' = cr_calls \ {call}
    /\ cr_event' = [kind |-> "raise", addr |-> call.collection.contractAddress,
                    type |-> call.type]
    /\ UNCHANGED cr_started

-----------------------------------------------------------------------------
(* shape-collections-fetcher.ts: isShapeNetworkCollection *)

\* String.prototype.toLowerCase over the strings the check is run on: the
\* letters A to F of an address become a to f, every other character stays
toLowerCase(s) ==
    CASE s = "0x6E148B55e4Cd30Ea6727d7E0661c3918A6C4E9Db" ->
             "0x6e148b55e4cd30ea6727d7e0661c3918a6c4e9db"
      [] s = "0x4E454C9aBCaD9780F3569E494d7EdE3CB6575b01" ->
             "0x4e454c9abcad9780f3569e494d7ede3cb6575b01"
      [] s = "0xe112Cf01c6cE916fFC2bDc350cC405E8357285DF" ->
             "0xe112cf01c6ce916ffc2bdc350cc405e8357285df"
      [] s = "0xB33F463369c1C53B2fD9260877565d5624CCDDd9" ->
             "0xb33f463369c1c53b2fd9260877565d5624ccddd9"
      [] s = "0xDAD1276ECD6D27116DA400B33C81CE49D91D5831" ->
             "0xdad1276ecd6d27116da400b33c81ce49d91d5831"
      [] s = "0x5FA1FDB5FE2C315ABAAD750DAE700747F250B0C2" ->
             "0x5fa1fdb5fe2c315abaad750dae700747f250b0c2"
      [] s = "0xAB3A867A6B14CC2F3286B9F03698656F8A892E9E" ->
             "0xab3a867a6b14cc2f3286b9f03698656f8a892e9e"
      [] OTHER -> s

\* Array.prototype.includes on an array of strings
includes(array, searchElement) ==
    \E k \in DOMAIN array : array[k] = searchElement

isShapeNetworkCollection(contractAddress) ==
    includes(SHAPE_COLLECTION_CONTRACTS, toLowerCase(contractAddress))

\* the addresses the check is run on: every listed entry as listed, the
\* listed entries that hold capital letters written in small letters, some
\* listed entries written in capital letters, and addresses of no listed
\* contract
AddressArgs ==
    {SHAPE_COLLECTION_CONTRACTS[k] : k \in DOMAIN SHAPE_COLLECTION_CONTRACTS}
    \cup {toLowerCase(SHAPE_COLLECTION_CONTRACTS[k]) :
            k \in DOMAIN SHAPE_COLLECTION_CONTRACTS}
    \cup {"0xDAD1276ECD6D27116DA400B33C81CE49D91D5831",
          "0x5FA1FDB5FE2C315ABAAD750DAE700747F250B0C2",
          "0xAB3A867A6B14CC2F3286B9F03698656F8A892E9E"}
    \cup {"", "0x0000000000000000000000000000000000000000",
          "0x1111111111111111111111111111111111111111",
          "0xdad1276ecd6d27116da400b33c81ce49d91d583"}

\* the calls made in one run
MaxChecks == 2

SnIdle ==
    /\ sn_pc = "idle"
    /\ sn_arg = ""
    /\ sn_result = FALSE
    /\ sn_count = 0

\* the check is called on an address
CheckCall ==
    /\ sn_pc \in {"idle", "returned"}
    /\ sn_count < MaxChecks
    /\ sn_count' = sn_count + 1
    /\ sn_pc' = "called"
    /\ \E contractAddress \in AddressArgs : sn_arg' = contractAddress
    /\ UNCHANGED sn_result

\* the check returns
CheckReturn ==
    /\ sn_pc = "called"
    /\ sn_pc' = "returned"
    /\ sn_result' = isShapeNetworkCollection(sn_arg)
    /\ UNCHANGED <<sn_arg, sn_count>>

-----------------------------------------------------------------------------
(* Specifications *)

Init ==
    /\ CacheInit /\ TallyInit /\ FoIdle /\ PeIdle /\ AnIdle /\ DdIdle /\ RtIdle
    /\ WdInit /\ CrInit /\ SnIdle

\* what a step adds to the history of a run: a probe issued, a batch fetch
\* entered, the first store of a sequence
Tally ==
    /\ probeCount' = probeCount
         + Cardinality({p \in Callers : pc[p] = "import" /\ pc'[p] = "probe"})
    /\ batchCount' = batchCount
         + Cardinality({p \in Callers : pc[p] = "probe" /\ pc'[p] \in {"fa_fetch", "fa_done"}})
    /\ firstStored' =
         IF ~firstStored.has /\ CACHED_COLLECTIONS' # CACHED_COLLECTIONS
         THEN Value(CACHED_COLLECTIONS') ELSE firstStored

Others == <<tallyVars, foVars, peVars, anVars, ddVars, rtVars, uiVars>>

\* the cache under concurrent callers and clears
Next ==
    \/ \E p \in Callers : Call(p) /\ UNCHANGED Others
    \/ \E p \in Callers : ImportDone(p) /\ UNCHANGED Others
    \/ \E p \in Callers : ProbeDone(p) /\ UNCHANGED Others
    \/ \E p \in Callers : FetchDone(p) /\ UNCHANGED Others
    \/ \E p \in Callers : DelayDone(p) /\ UNCHANGED Others
    \/ \E p \in Callers : StoreFetched(p) /\ UNCHANGED Others
    \/ \E p \in Callers : StoreFallback(p) /\ UNCHANGED Others
    \/ \E p \in Callers : Resume(p) /\ UNCHANGED Others
    \/ clearCollectionsCache /\ UNCHANGED Others

Spec == Init /\ [][Next]_vars

\* every continuation of a settled promise is eventually run by the event
\* loop, and every upstream call settles
FairSpec ==
    Spec /\ \A p \in Callers : WF_vars(Continue(p) /\ UNCHANGED Others)

\* calls made one after another: a step of p only while no other call is
\* under way, and no clear; the history of the run is kept
Alone(p) == \A q \in Callers \ {p} : pc[q] \in {"idle", "returned"}

SeqNext ==
    \/ \E p \in Callers : Alone(p) /\ Call(p) /\ Tally /\ UNCHANGED <<foVars, peVars, anVars, ddVars, rtVars, uiVars>>
    \/ \E p \in Callers : Alone(p) /\ ImportDone(p) /\ Tally /\ UNCHANGED <<foVars, peVars, anVars, ddVars, rtVars, uiVars>>
    \/ \E p \in Callers : Alone(p) /\ ProbeDone(p) /\ Tally /\ UNCHANGED <<foVars, peVars, anVars, ddVars, rtVars, uiVars>>
    \/ \E p \in Callers : Alone(p) /\ FetchDone(p) /\ Tally /\ UNCHANGED <<foVars, peVars, anVars, ddVars, rtVars, uiVars>>
    \/ \E p \in Callers : Alone(p) /\ DelayDone(p) /\ Tally /\ UNCHANGED <<foVars, peVars, anVars, ddVars, rtVars, uiVars>>
    \/ \E p \in Callers : Alone(p) /\ StoreFetched(p) /\ Tally /\ UNCHANGED <<foVars, peVars, anVars, ddVars, rtVars, uiVars>>
    \/ \E p \in Callers : Alone(p) /\ StoreFallback(p) /\ Tally /\ UNCHANGED <<foVars, peVars, anVars, ddVars, rtVars, uiVars>>
    \/ \E p \in Callers : Alone(p) /\ Resume(p) /\ Tally /\ UNCHANGED <<foVars, peVars, anVars, ddVars, rtVars, uiVars>>

SeqSpec == Init /\ [][SeqNext]_vars

\* fetchCollectionData alone
FetchOneNext ==
    \/ FoCall /\ UNCHANGED <<cacheVars, tallyVars, peVars, anVars, ddVars, rtVars, uiVars>>
    \/ FoSettle /\ UNCHANGED <<cacheVars, tallyVars, peVars, anVars, ddVars, rtVars, uiVars>>

FetchOneSpec == Init /\ [][FetchOneNext]_vars

\* the persona matching engine alone
PersonaNext ==
    \/ PeCall /\ UNCHANGED <<cacheVars, tallyVars, foVars, anVars, ddVars, rtVars, uiVars>>
    \/ PePromptRaises /\ UNCHANGED <<cacheVars, tallyVars, foVars, anVars, ddVars, rtVars, uiVars>>
    \/ PeSettle /\ UNCHANGED <<cacheVars, tallyVars, foVars, anVars, ddVars, rtVars, uiVars>>

PersonaSpec == Init /\ [][PersonaNext]_vars

\* the snapshot functions of analytics-service.ts, one call at a time
AnalyticsNext ==
    \/ MarketCall /\ UNCHANGED <<cacheVars, tallyVars, foVars, peVars, ddVars, rtVars, uiVars>>
    \/ MarketSettle /\ UNCHANGED <<cacheVars, tallyVars, foVars, peVars, ddVars, rtVars, uiVars>>
    \/ HolderCall /\ UNCHANGED <<cacheVars, tallyVars, foVars, peVars, ddVars, rtVars, uiVars>>
    \/ HolderSettle /\ UNCHANGED <<cacheVars, tallyVars, foVars, peVars, ddVars, rtVars, uiVars>>
    \/ ActivityCall /\ UNCHANGED <<cacheVars, tallyVars, foVars, peVars, ddVars, rtVars, uiVars>>
    \/ ActivitySettle /\ UNCHANGED <<cacheVars, tallyVars, foVars, peVars, ddVars, rtVars, uiVars>>

AnalyticsSpec == Init /\ [][AnalyticsNext]_vars

\* the deep dive: the local synthesis and the /ai-analysis endpoint, one call
\* at a time
DeepDiveNext ==
    \/ LocalSynthesis /\ UNCHANGED <<cacheVars, tallyVars, foVars, peVars, anVars, rtVars, uiVars>>
    \/ PostAnswersEarly /\ UNCHANGED <<cacheVars, tallyVars, foVars, peVars, anVars, rtVars, uiVars>>
    \/ PostGenerates /\ UNCHANGED <<cacheVars, tallyVars, foVars, peVars, anVars, rtVars, uiVars>>
    \/ PostSettles /\ UNCHANGED <<cacheVars, tallyVars, foVars, peVars, anVars, rtVars, uiVars>>

DeepDiveSpec == Init /\ [][DeepDiveNext]_vars

\* the /analyze-persona endpoint, one request at a time
PersonaRouteNext ==
    \/ RouteAnswersEarly /\ UNCHANGED <<cacheVars, tallyVars, foVars, peVars, anVars, ddVars, uiVars>>
    \/ RouteGenerates /\ UNCHANGED <<cacheVars, tallyVars, foVars, peVars, anVars, ddVars, uiVars>>
    \/ RouteSettles /\ UNCHANGED <<cacheVars, tallyVars, foVars, peVars, anVars, ddVars, uiVars>>

PersonaRouteSpec == Init /\ [][PersonaRouteNext]_vars

\* the widget as WidgetShell drives it: a handler runs only from a screen
\* that shows its control
WdOthers == <<tallyVars, foVars, peVars, anVars, ddVars, rtVars, crVars, snVars>>

WidgetNext ==
    \/ Mount /\ UNCHANGED WdOthers
    \/ LoadStarts /\ UNCHANGED WdOthers
    \/ LoadProceeds /\ UNCHANGED WdOthers
    \/ LoadReturns /\ UNCHANGED WdOthers
    \/ ReadyReported /\ UNCHANGED WdOthers
    \/ Activate /\ UNCHANGED WdOthers
    \/ View = "ready" /\ expandWidget /\ UNCHANGED WdOthers
    \/ View = "selecting" /\ collapseWidget /\ UNCHANGED WdOthers
    \/ View = "selecting" /\ ~state.analyzing
          /\ (\E persona \in PersonaKeys : selectPersona(persona))
          /\ UNCHANGED WdOthers
    \/ View = "results" /\ clearSelection /\ UNCHANGED WdOthers
    \/ (\E k \in 1..MaxInFlight : FetchSucceeds(k)) /\ UNCHANGED WdOthers
    \/ (\E k \in 1..MaxInFlight : FetchFails(k)) /\ UNCHANGED WdOthers
    \/ (\E k \in 1..MaxInFlight : FallbackSettles(k)) /\ UNCHANGED WdOthers
    \/ Remount /\ UNCHANGED WdOthers

WidgetSpec == Init /\ [][WidgetNext]_vars

\* timers end, upstream calls settle and continuations run; the user may
\* leave any control untouched
WidgetFairSpec ==
    /\ WidgetSpec
    /\ WF_vars(Mount /\ UNCHANGED WdOthers)
    /\ WF_vars(LoadStarts /\ UNCHANGED WdOthers)
    /\ WF_vars(LoadProceeds /\ UNCHANGED WdOthers)
    /\ WF_vars(LoadReturns /\ UNCHANGED WdOthers)
    /\ WF_vars(ReadyReported /\ UNCHANGED WdOthers)
    /\ WF_vars(Activate /\ UNCHANGED WdOthers)
    /\ WF_vars((\E k \in 1..MaxInFlight : FetchSucceeds(k) \/ FetchFails(k))
                 /\ UNCHANGED WdOthers)
    /\ WF_vars((\E k \in 1..MaxInFlight : FallbackSettles(k)) /\ UNCHANGED WdOthers)

\* the analytics panels of the results screen: panels are toggled and
\* metrics fetched in any order, fetches settle in any order
CrOthers == <<cacheVars, tallyVars, foVars, peVars, anVars, ddVars, rtVars, wdVars, snVars>>

CollectionResultsNext ==
    \/ (\E a \in ShownAddresses : toggleAnalytics(a)) /\ UNCHANGED CrOthers
    \/ (\E k \in DOMAIN ShownCollections, type \in MetricTypes :
            FetchStarts(ShownCollections[k], type)) /\ UNCHANGED CrOthers
    \/ (\E call \in cr_calls : FetchResolves(call)) /\ UNCHANGED CrOthers
    \/ (\E call \in cr_calls : FetchRaises(call)) /\ UNCHANGED CrOthers

CollectionResultsSpec == Init /\ [][CollectionResultsNext]_vars

\* isShapeNetworkCollection alone
ShapeCheckNext ==
    \/ CheckCall /\ UNCHANGED <<cacheVars, tallyVars, foVars, peVars, anVars, ddVars, rtVars, wdVars, crVars>>
    \/ CheckReturn /\ UNCHANGED <<cacheVars, tallyVars, foVars, peVars, anVars, ddVars, rtVars, wdVars, crVars>>

ShapeCheckSpec == Init /\ [][ShapeCheckNext]_vars

\* the hook on its own: once the widget is active, any of its handlers may be
\* called at any time, whatever the screen shows
Mounted == state.widgetActive

HookNext ==
    \/ Mount /\ UNCHANGED WdOthers
    \/ LoadStarts /\ UNCHANGED WdOthers
    \/ LoadProceeds /\ UNCHANGED WdOthers
    \/ LoadReturns /\ UNCHANGED WdOthers
    \/ ReadyReported /\ UNCHANGED WdOthers
    \/ Activate /\ UNCHANGED WdOthers
    \/ Mounted /\ expandWidget /\ UNCHANGED WdOthers
    \/ Mounted /\ collapseWidget /\ UNCHANGED WdOthers
    \/ Mounted /\ (\E persona \in PersonaKeys : selectPersona(persona))
          /\ UNCHANGED WdOthers
    \/ Mounted /\ clearSelection /\ UNCHANGED WdOthers
    \/ (\E k \in 1..MaxInFlight : FetchSucceeds(k)) /\ UNCHANGED WdOthers
    \/ (\E k \in 1..MaxInFlight : FetchFails(k)) /\ UNCHANGED WdOthers
    \/ (\E k \in 1..MaxInFlight : FallbackSettles(k)) /\ UNCHANGED WdOthers
    \/ Remount /\ UNCHANGED WdOthers

HookSpec == Init /\ [][HookNext]_vars


-----------------------------------------------------------------------------
(* Properties *)

Range(seq) == {seq[k] : k \in DOMAIN seq}
NonDecreasing(seq) == \A k \in 1..(Len(seq) - 1) : seq[k] <= seq[k + 1]
IsPrefix(a, b) == Len(a) <= Len(b) /\ a = SubSeq(b, 1, Len(a))
IndexIn(list, x) == CHOOSE k \in DOMAIN list : list[k] = x
\* the addresses of records occur in list, in the order of list
InListOrder(records, list) ==
    /\ \A k \in DOMAIN records : records[k].contractAddress \in Range(list)
    /\ \A k \in 1..(Len(records) - 1) :
         IndexIn(list, records[k].contractAddress)
           < IndexIn(list, records[k + 1].contractAddress)
\* a complete result of a batch fetch: one record per listed address, in order,
\* each one a record fetchCollectionData can answer for that address
CompleteBatch(seq) ==
    /\ Len(seq) = totalContracts
    /\ \A k \in DOMAIN seq :
         seq[k] \in {fetchCollectionData(Contracts[k], up[1], up[2]).value :
                        up \in UpstreamSample}

\* C1: when load calls run one after another with no clear in between, the
\* connectivity probe and the batch fetch each happen at most once in total,
\* and every value a call returns is the sequence the first call stored.
C1_SequentialLoadsFetchOnce ==
    /\ probeCount <= 1
    /\ batchCount <= 1
    /\ \A p \in Callers :
         ret[p].has => firstStored.has /\ ret[p].v = firstStored.v

\* C1 witness: a later call found the cache populated and returned the
\* sequence the first call had stored after its one batch fetch.
C1_Witness ==
    \E p \in Callers :
      /\ pc[p] = "returned"
      /\ ~sawEmpty[p]
      /\ batchCount = 1
      /\ firstStored.has
      /\ ret[p].v = firstStored.v

C3_WriteOnce ==
    [][(Len(CACHED_COLLECTIONS) > 0 /\ CACHED_COLLECTIONS' # CACHED_COLLECTIONS)
         => clearCollectionsCache]_vars

\* C3 amended: a load call that starts while the cache is non-empty returns
\* the held sequence and leaves it unchanged; a non-empty cache is changed
\* only by clearCollectionsCache or by the final store of a load call that had
\* found the cache empty when it started (the last write wins).
C3_WriteOnceAfterStart ==
    [][/\ \A p \in Callers :
            (Len(CACHED_COLLECTIONS) > 0 /\ pc[p] = "idle" /\ pc'[p] # "idle") =>
              /\ CACHED_COLLECTIONS' = CACHED_COLLECTIONS
              /\ pc'[p] = "returned"
              /\ ret'[p] = Value(CACHED_COLLECTIONS)
       /\ (Len(CACHED_COLLECTIONS) > 0 /\ CACHED_COLLECTIONS' # CACHED_COLLECTIONS) =>
            \/ clearCollectionsCache
            \/ \E p \in Callers :
                 /\ sawEmpty[p]
                 /\ pc[p] \in {"fa_done", "fallback"} /\ pc'[p] = "returned"
                 /\ CACHED_COLLECTIONS' = ret'[p].v]_vars

\* C3 witness: a call that started on the populated cache has returned the
\* held sequence while another call, begun on the empty cache, is still
\* fetching.
C3_Witness ==
    \E p \in Callers, q \in Callers :
      /\ pc[p] = "returned" /\ ~sawEmpty[p]
      /\ ret[p].v = CACHED_COLLECTIONS
      /\ Len(CACHED_COLLECTIONS) > 0
      /\ pc[q] = "fa_fetch" /\ sawEmpty[q]

\* C4: what getAllCollections shows is always empty, the complete result of
\* a batch fetch, or the complete static fallback set; never part of a batch
\* in progress.
C4_NoPartialSequenceObservable ==
    \/ getAllCollections = <<>>
    \/ getAllCollections = loadFallbackCollections
    \/ CompleteBatch(getAllCollections)

\* C4 witness: the cache holds a complete batch while another caller's batch
\* is part-way through.
C4_Witness ==
    \E q \in Callers :
      /\ CompleteBatch(getAllCollections)
      /\ getAllCollections # loadFallbackCollections
      /\ pc[q] \in {"fa_fetch", "fa_delay"}
      /\ 0 < Len(collections[q])
      /\ Len(collections[q]) < totalContracts

\* C5: for every address and every pair of upstream outcomes,
\* fetchCollectionData returns (does not raise) a non-null Collection whose
\* contractAddress is the requested address.
C5_FetchOneNeverRaises ==
    fo_pc = "settled" =>
      /\ fo_result.v.kind = "return"
      /\ fo_result.v.value.t = "object"
      /\ fo_result.v.value.contractAddress = fo_addr

\* C5 witness: the try block raised (a name that cannot be URI-encoded and no
\* image) and the call still returned a record for the address.
C5_Witness ==
    /\ fo_pc = "settled"
    /\ fetchCollectionDataTry(fo_addr, fo_meta, fo_owners).kind = "throw"
    /\ fo_result.v.kind = "return"
    /\ fo_result.v.value.contractAddress = fo_addr

\* C6: when both the metadata call and the owners call fail,
\* fetchCollectionData returns the degraded form: the "Unknown Collection
\* (<first 6 characters>...)" name, null symbol, totalSupply and owners, and
\* the error placeholder image.
C6_DegradedWhenBothCallsFail ==
    (fo_pc = "settled" /\ fo_meta = Rejected /\ fo_owners = Rejected) =>
      /\ fo_result.v.kind = "return"
      /\ fo_result.v.value.name =
           Str(<<"Unknown Collection (", Slice06(fo_addr), "...)">>)
      /\ fo_result.v.value.symbol = Null
      /\ fo_result.v.value.totalSupply = Null
      /\ fo_result.v.value.owners = Null
      /\ fo_result.v.value.image =
           Str(<<"https://via.placeholder.com/300x300?text=Error+Loading">>)

\* C7: fetchAllShapeCollections requests the listed addresses once each, in
\* list order, the next one only after the previous fetch has settled; no
\* item outcome stops the loop; the result has at most N records, in the
\* order of the list.
C7_BatchSequentialInListOrder ==
    \A p \in Callers :
      /\ IsPrefix(requested[p], Contracts)
      /\ (pc[p] \in {"fa_fetch", "fa_delay"} => Len(requested[p]) = i[p] + 1)
      /\ (pc[p] = "fa_fetch" => Len(collections[p]) <= i[p])
      /\ Len(collections[p]) <= Len(requested[p])
      /\ InListOrder(collections[p], Contracts)
      /\ (pc[p] = "fa_done" =>
            /\ requested[p] = Contracts
            /\ Len(collections[p]) <= totalContracts)

\* C7 witness: a batch has finished after an item whose upstream calls all
\* failed, with every listed address requested.
C7_Witness ==
    \E p \in Callers :
      /\ pc[p] = "fa_done"
      /\ requested[p] = Contracts
      /\ Len(collections[p]) = totalContracts
      /\ collections[p][1].name = Null
      /\ collections[p][totalContracts].name # Null

\* C8: the progress values fetchAllShapeCollections reports lie in 0..100,
\* never decrease, and the last one of a finished run is 100.
C8_BatchProgressMonotone ==
    \A p \in Callers :
      /\ \A k \in DOMAIN faProgress[p] : faProgress[p][k] \in 0..100
      /\ NonDecreasing(faProgress[p])
      /\ (pc[p] = "fa_done" =>
            /\ Len(faProgress[p]) = totalContracts + 2
            /\ faProgress[p][Len(faProgress[p])] = 100)

\* C8 witness: a batch has finished and reported a value strictly between 0
\* and 100 on the way.
C8_Witness ==
    \E p \in Callers :
      /\ pc[p] = "fa_done"
      /\ \E k \in DOMAIN faProgress[p] : faProgress[p][k] \in 1..99
      /\ faProgress[p][Len(faProgress[p])] = 100

\* the reply of a settled call parsed to an object with an array of indices
PeArrayReply ==
    /\ pe_pc = "settled"
    /\ pe_gen.has
    /\ pe_gen.v.kind = "return"
    /\ Truthy(RegexMatch(pe_gen.v.value))
    /\ JSONparse(RegexMatch(pe_gen.v.value).text).kind = "return"
    /\ JSONparse(RegexMatch(pe_gen.v.value).text).value.selectedCollections.t = "array"
PeParsed == JSONparse(RegexMatch(pe_gen.v.value).text).value

\* the records named by the in-range indices of selected, in that order,
\* until max of them are taken
RECURSIVE TakeInRange(_, _, _)
TakeInRange(selected, all, max) ==
    IF selected = <<>> \/ max = 0 THEN <<>>
    ELSE IF Head(selected) \in 1..Len(all)
         THEN <<all[Head(selected)]>> \o TakeInRange(Tail(selected), all, max - 1)
         ELSE TakeInRange(Tail(selected), all, max)

\* C9: when the reply's JSON has an array selectedCollections, the result is
\* the input records at the in-range 1-based indices, in the order returned,
\* out-of-range indices (0 and negative ones too) dropped, cut to the first 4.
C9_SelectionMapsInRangeIndices ==
    PeArrayReply =>
      pe_result.v.selectedCollections
        = TakeInRange(PeParsed.selectedCollections.a, pe_all, 4)

\* C9 witness: indices [1, 2, 99] over a 3-item input gave exactly items 1
\* and 2.
C9_Witness ==
    /\ PeArrayReply
    /\ Len(pe_all) = 3
    /\ PeParsed.selectedCollections.a = <<1, 2, 99>>
    /\ pe_result.v.selectedCollections = <<pe_all[1], pe_all[2]>>

\* C10: on every reply and every failure path the confidence of the result
\* is a number in [0,1], and it is 0.5 when the reply's confidence is absent
\* or is not a number.
C10_ConfidenceInUnitInterval ==
    pe_pc = "settled" =>
      /\ pe_result.v.confidence.t = "number"
      /\ pe_result.v.confidence.n \in 0..100
      /\ (PeArrayReply /\ PeParsed.confidence.t # "number")
            => pe_result.v.confidence = Num(50)

\* the first two records of a sequence, all of it when it is shorter
FirstTwo(seq) == IF Len(seq) < 2 THEN seq ELSE <<seq[1], seq[2]>>

\* text generation succeeded
PeGenerated == pe_pc = "settled" /\ pe_gen.has /\ pe_gen.v.kind = "return"

\* the text holds no JSON object at all
PeNoJsonInText == \A k \in DOMAIN pe_gen.v.value : pe_gen.v.value[k].k # "json"

\* a JSON object was extracted from the text and its selectedCollections is
\* missing or is not an array
PeJsonWithoutArray ==
    /\ Truthy(RegexMatch(pe_gen.v.value))
    /\ JSONparse(RegexMatch(pe_gen.v.value).text).kind = "return"
    /\ PeParsed.selectedCollections.t # "array"

\* C11: when generation succeeds but the text holds no parseable JSON object,
\* or the JSON's selectedCollections is missing or not an array, the result
\* is the first 2 input collections (all if fewer) with confidence 0.2.
C11_ParseFailureFallsBackToFirstTwo ==
    (PeGenerated /\ (PeNoJsonInText \/ PeJsonWithoutArray)) =>
        /\ pe_result.v.selectedCollections = FirstTwo(pe_all)
        /\ pe_result.v.confidence = Num(20)

\* C11 witness: a reply of prose and a non-JSON braced span over 3 inputs
\* gave the first 2 with confidence 0.2.
C11_Witness ==
    /\ PeGenerated
    /\ pe_gen.v.value = <<Prose, Braces, Prose>>
    /\ Len(pe_all) = 3
    /\ pe_result.v.selectedCollections = <<pe_all[1], pe_all[2]>>
    /\ pe_result.v.confidence = Num(20)

\* prompt construction or text generation raised
PeRaised == pe_pc = "settled" /\ (~pe_gen.has \/ pe_gen.v.kind = "throw")
PeError ==
    IF pe_gen.has THEN pe_gen.v.error ELSE createPersonaPrompt(pe_def, pe_all).error

\* C12: every call settles with a result record, never with a raise; when
\* prompt construction or text generation raised, the result is the first 2
\* input collections, confidence 0.1, and a reasoning that carries the
\* error's message.
C12_EngineNeverRaises ==
    pe_pc = "settled" =>
        /\ pe_result.has
        /\ DOMAIN pe_result.v = {"selectedCollections", "reasoning", "confidence"}
        /\ PeRaised =>
            /\ pe_result.v.selectedCollections = FirstTwo(pe_all)
            /\ pe_result.v.confidence = Num(10)
            /\ PeError.isError =>
                 \E k \in DOMAIN pe_result.v.reasoning.s :
                     pe_result.v.reasoning.s[k] = PeError.message

\* C12 witness: generation raised "Overloaded" over 3 inputs and the call
\* returned the first 2 with confidence 0.1.
C12_Witness ==
    /\ pe_pc = "settled"
    /\ pe_gen = Value(Throw([isError |-> TRUE, message |-> "Overloaded"]))
    /\ Len(pe_all) = 3
    /\ pe_result.v.selectedCollections = <<pe_all[1], pe_all[2]>>
    /\ pe_result.v.confidence = Num(10)

Min(a, b) == IF a <= b THEN a ELSE b

\* the local synthesis ran with all three snapshots at hand
LocalComprehensive ==
    /\ dd_pc = "local_done"
    /\ Truthy(dd_args.v.marketHealth)
    /\ Truthy(dd_args.v.holderAnalysis)
    /\ Truthy(dd_args.v.activityTrends)

\* three times the overall score the claim's tables give for the snapshots
ClaimedScoreSum ==
    (CASE dd_args.v.marketHealth.momentum = "bullish" -> 80
       [] dd_args.v.marketHealth.momentum = "neutral" -> 60
       [] dd_args.v.marketHealth.momentum = "bearish" -> 40)
    + (IF dd_args.v.holderAnalysis.concentrationRatio < 500 THEN 80 ELSE 60)
    + (CASE dd_args.v.activityTrends.tradingPattern = "active" -> 80
         [] dd_args.v.activityTrends.tradingPattern = "accumulating" -> 70
         [] dd_args.v.activityTrends.tradingPattern = "dormant" -> 50)

\* C14: with all three snapshots supplied, the overall score is the mean of
\* marketScore (80/60/40 for bullish/neutral/bearish), holderScore (80 if
\* concentrationRatio < 50, else 60) and activityScore (80/70/50 for
\* active/accumulating/dormant); the thesis is buy iff overall > 75, avoid iff
\* overall < 50, hold otherwise, and confidenceScore is overall rounded to
\* the nearest integer.
C14_LocalSynthesisScores ==
    LocalComprehensive =>
        LET r == dd_analysis.v
            sum == ClaimedScoreSum
        IN  /\ (r.investmentThesis = "buy") <=> (sum > 3 * 75)
            /\ (r.investmentThesis = "avoid") <=> (sum < 3 * 50)
            /\ (r.investmentThesis = "hold") <=> (3 * 50 <= sum /\ sum <= 3 * 75)
            /\ 3 * r.confidenceScore - sum \in {-1, 0, 1}

\* C14 witness: bullish, concentrationRatio 40 and active gave buy with
\* confidence 80.
C14_Witness ==
    /\ LocalComprehensive
    /\ dd_args.v.marketHealth.momentum = "bullish"
    /\ dd_args.v.holderAnalysis.concentrationRatio = 400
    /\ dd_args.v.activityTrends.tradingPattern = "active"
    /\ dd_analysis.v.investmentThesis = "buy"
    /\ dd_analysis.v.confidenceScore = 80

\* the endpoint answered 200 with a record
PostSucceeded == dd_pc = "answered" /\ dd_response.v.status = 200
PostAnalysis == dd_response.v.body.analysis
\* the JSON object the endpoint extracted from the reply
PostParsed == JSONparse(RegexMatch(dd_gen.v.value).text).value

\* C15 as claimed: every record of either synthesis path has 2 to 3 risk
\* factors, 2 to 3 opportunities and 1 to 2 comparable collections.
C15_ListSizesWithinRanges ==
    /\ dd_pc = "local_done" =>
         /\ Len(dd_analysis.v.riskFactors) \in 2..3
         /\ Len(dd_analysis.v.opportunities) \in 2..3
         /\ Len(dd_analysis.v.comparableCollections) \in 1..2
    /\ PostSucceeded =>
         /\ Len(PostAnalysis.riskFactors.a) \in 2..3
         /\ Len(PostAnalysis.opportunities.a) \in 2..3
         /\ Len(PostAnalysis.comparableCollections.a) \in 1..2

\* C15 as amended: no list exceeds its cap (3 risk factors, 3 opportunities,
\* 2 comparable collections); the local synthesis returns 1 to 3 risk
\* factors, 1 to 3 opportunities and exactly 2 comparable collections; the
\* endpoint returns the reply's arrays cut to the caps (possibly empty), and
\* its 2-entry defaults for a field that is no array.
C15_ListSizesWithinCaps ==
    /\ dd_pc = "local_done" =>
         /\ Len(dd_analysis.v.riskFactors) \in 1..3
         /\ Len(dd_analysis.v.opportunities) \in 1..3
         /\ Len(dd_analysis.v.comparableCollections) = 2
    /\ PostSucceeded =>
         /\ Len(PostAnalysis.riskFactors.a) =
              (IF PostParsed.riskFactors.t = "array"
               THEN Min(3, Len(PostParsed.riskFactors.a)) ELSE 2)
         /\ Len(PostAnalysis.opportunities.a) =
              (IF PostParsed.opportunities.t = "array"
               THEN Min(3, Len(PostParsed.opportunities.a)) ELSE 2)
         /\ Len(PostAnalysis.comparableCollections.a) =
              (IF PostParsed.comparableCollections.t = "array"
               THEN Min(2, Len(PostParsed.comparableCollections.a)) ELSE 2)

\* C15 witness: a reply listing 4 risk factors was answered with 3.
C15_Witness ==
    /\ PostSucceeded
    /\ PostParsed.riskFactors.t = "array"
    /\ Len(PostParsed.riskFactors.a) = 4
    /\ Len(PostAnalysis.riskFactors.a) = 3

\* C16: for every JSON object found in the reply, the endpoint's record has a
\* thesis among buy, hold and avoid (hold by default) and an integer
\* confidenceScore in [0,100] (50 when the reply's score is missing or is no
\* number).
C16_EndpointRecordConformsToShape ==
    PostSucceeded =>
        /\ PostAnalysis.investmentThesis
             \in {Str(<<"buy">>), Str(<<"hold">>), Str(<<"avoid">>)}
        /\ ~Truthy(PostParsed.investmentThesis)
             => PostAnalysis.investmentThesis = Str(<<"hold">>)
        /\ PostAnalysis.confidenceScore.t = "number"
        /\ "d" \notin DOMAIN PostAnalysis.confidenceScore
        /\ PostAnalysis.confidenceScore.n \in 0..100
        /\ PostParsed.confidenceScore.t \in {"undefined", "null", "object", "boolean"}
             => PostAnalysis.confidenceScore = Num(50)

\* the request body as request.json() delivered it, and its collection
PostJson == dd_req.v.json
PostCollection ==
    IF PostJson.kind = "throw" THEN Undefined
    ELSE IF PostJson.value.t = "null" THEN Undefined
    ELSE Prop(PostJson.value, "collection")
PostCollectionMissing ==
    ~Truthy(PostCollection) \/ ~Truthy(Prop(PostCollection, "contractAddress"))

\* the reply holds no JSON object
PostNoJsonInReply == \A k \in DOMAIN dd_gen.v.value : dd_gen.v.value[k].k # "json"

\* the reply's span from its first "{" to its last "}" is one JSON object
PostSpanIsJson ==
    LET braced == {k \in DOMAIN dd_gen.v.value :
                      dd_gen.v.value[k].k \in {"braces", "json"}}
    IN  Cardinality(braced) = 1 /\ \A k \in braced : dd_gen.v.value[k].k = "json"

\* C17 as claimed, for a request whose body is a JSON object: 400 whenever
\* collection or its contractAddress is missing, also without a credential;
\* 500 for a valid request without a credential; 500 with details when
\* generation raises or no JSON object is found in the reply; 200 with
\* success otherwise; no exception escapes.
C17_EndpointStatusCodes ==
    (dd_pc = "answered" /\ PostJson.kind = "return" /\ PostJson.value.t = "object") =>
        IF PostCollectionMissing THEN dd_response.v.status = 400
        ELSE IF ~Truthy(dd_req.v.apiKey) THEN dd_response.v.status = 500
        ELSE IF dd_gen.v.kind = "throw" \/ PostNoJsonInReply
        THEN dd_response.v.status = 500 /\ "details" \in DOMAIN dd_response.v.body
        ELSE dd_response.v.status = 200 /\ dd_response.v.body.success

\* C17 as amended: 500 with details when the body cannot be read as JSON or
\* is null; otherwise 400 whenever collection or its contractAddress is
\* missing, also without a credential; 500 for a valid request without a
\* credential; 500 with details when generation raises, the reply has no
\* braces, or the span from the first "{" to the last "}" is not one JSON
\* object; 200 with success otherwise; no exception escapes.
C17_EndpointStatusCodesBySpan ==
    dd_pc = "answered" =>
        /\ dd_response.has
        /\ IF PostJson.kind = "throw" \/ PostJson.value.t = "null"
           THEN dd_response.v.status = 500 /\ "details" \in DOMAIN dd_response.v.body
           ELSE IF PostCollectionMissing THEN dd_response.v.status = 400
           ELSE IF ~Truthy(dd_req.v.apiKey)
           THEN dd_response.v.status = 500 /\ "details" \notin DOMAIN dd_response.v.body
           ELSE IF dd_gen.v.kind = "throw" \/ ~PostSpanIsJson
           THEN dd_response.v.status = 500 /\ "details" \in DOMAIN dd_response.v.body
           ELSE dd_response.v.status = 200 /\ dd_response.v.body.success

\* C17 witness: a request with neither a collection nor a credential was
\* answered 400.
C17_Witness ==
    /\ dd_pc = "answered"
    /\ PostJson.kind = "return"
    /\ PostJson.value.t = "object"
    /\ PostJson.value.collection = Undefined
    /\ dd_req.v.apiKey = Undefined
    /\ dd_response.v.status = 400


\* the request of the /analyze-persona endpoint, when its body is a JSON
\* object
RouteBodyIsObject ==
    rt_pc = "answered" /\ rt_req.v.kind = "return" /\ rt_req.v.value.t = "object"
RoutePersona == rt_req.v.value.persona
RouteCollections == rt_req.v.value.collections

\* C18: a request whose persona is missing, whose collections is no array or
\* whose persona is not one of renegade, fomo, zen, chaos is answered 400; a
\* request with one of the 4 personas and an array of collections is answered
\* 200 with success, also when the engine fell back.
C18_PersonaEndpointValidates ==
    RouteBodyIsObject =>
        IF \/ ~Truthy(RoutePersona)
           \/ RouteCollections.t # "array"
           \/ RoutePersona \notin {Str(<<k>>) : k \in PersonaKeys}
        THEN rt_response.v.status = 400
        ELSE rt_response.v.status = 200 /\ rt_response.v.body.success

\* fetchMarketHealth returned for a list upstream returned
MarketReturned ==
    an_pc = "market_settled" /\ an_in.v.kind = "return" /\ an_out.v.kind = "return"
MarketEvents == an_in.v.value.transfers
MarketResult == an_out.v.value

\* C19: for every transfer list upstream returns, the 20 most recent events
\* at most are counted: transferCount is in 0..20, momentum is bullish iff
\* the count exceeds 10, neutral iff it is in 6..10, bearish iff it is at
\* most 5, liquidityScore is min(100, 5 * count), and uniqueTraders is the
\* number of distinct from and to addresses of the counted events.
C19_MarketHealthFromRecentTransfers ==
    (an_pc = "market_settled" /\ an_in.v.kind = "return") =>
        /\ an_out.v.kind = "return"
        /\ LET count == Min(Len(MarketEvents), 20)
               r == MarketResult
           IN  /\ r.transferCount24h = count
               /\ r.transferCount24h \in 0..20
               /\ (r.momentum = "bullish") <=> (count > 10)
               /\ (r.momentum = "neutral") <=> (5 < count /\ count <= 10)
               /\ (r.momentum = "bearish") <=> (count <= 5)
               /\ r.liquidityScore = Min(100, 5 * count)
               /\ r.uniqueTraders24h =
                    Cardinality(UNION {{MarketEvents[k].from, MarketEvents[k].to} :
                                          k \in 1..count})

\* C19 witness: 22 events among 4 traders gave a count of 20, bullish,
\* liquidity 100 and 4 traders, the two late traders left out.
C19_Witness ==
    /\ MarketReturned
    /\ Len(MarketEvents) = 22
    /\ MarketEvents[21].from = LateFrom
    /\ MarketResult.transferCount24h = 20
    /\ MarketResult.momentum = "bullish"
    /\ MarketResult.liquidityScore = 100
    /\ MarketResult.uniqueTraders24h = 4

\* fetchHolderAnalysis returned for an owner list upstream returned
HolderReturned ==
    an_pc = "holder_settled" /\ an_in.v.kind = "return" /\ an_out.v.kind = "return"
HolderResult == an_out.v.value

\* C20: for every owner count h, concentrationRatio is 100 - h/10 clamped to
\* [10, 90] (here in tenths), whaleHolders is floor(0.05 h),
\* crossCollectionHolders is floor(0.3 h), and distribution is concentrated
\* iff the ratio exceeds 70, distributed iff it is below 30, else balanced.
C20_HolderAnalysisFormulas ==
    (an_pc = "holder_settled" /\ an_in.v.kind = "return") =>
        /\ an_out.v.kind = "return"
        /\ LET h == Len(an_in.v.value.owners)
               r == HolderResult
           IN  /\ r.totalHolders = h
               /\ r.concentrationRatio =
                    (IF 1000 - h < 100 THEN 100 ELSE IF 1000 - h > 900 THEN 900
                     ELSE 1000 - h)
               /\ 20 * r.whaleHolders <= h /\ h < 20 * (r.whaleHolders + 1)
               /\ 10 * r.crossCollectionHolders <= 3 * h
               /\ 3 * h < 10 * (r.crossCollectionHolders + 1)
               /\ (r.distribution = "concentrated") <=> (1000 - h > 700)
               /\ (r.distribution = "distributed") <=> (1000 - h < 300)
               /\ (r.distribution = "balanced") <=> (300 <= 1000 - h /\ 1000 - h <= 700)

\* C20 witness: 200 owners gave a ratio of 80, 10 whales, 60 cross-collection
\* holders and a concentrated distribution.
C20_Witness ==
    /\ HolderReturned
    /\ HolderResult.totalHolders = 200
    /\ HolderResult.concentrationRatio = 800
    /\ HolderResult.whaleHolders = 10
    /\ HolderResult.crossCollectionHolders = 60
    /\ HolderResult.distribution = "concentrated"

ReadyCollapsed ==
    /\ state.isDataReady /\ state.widgetActive
    /\ ~state.isLoading /\ ~state.widgetExpanded

\* C21: after the widget controller mounts with data not yet ready it starts
\* exactly one cache load and eventually reaches the ready-collapsed state
\* (isDataReady, widgetActive, not isLoading, not widgetExpanded), whichever
\* way the cache was filled; widgetActive is never true while isDataReady is
\* false
C21_MountLoadsOnceAndBecomesReady ==
    /\ [](state.widgetActive => state.isDataReady)
    /\ [](loadsStarted <= 1)
    /\ [](ibc_pc \in {"loading", "timer500", "timer500b", "done"} => loadsStarted = 1)
    /\ (ibc_pc = "rendered" /\ ~state.isDataReady) ~> (ibc_pc = "done" /\ ReadyCollapsed)

C21_Witness ==
    /\ ibc_pc = "done" /\ ReadyCollapsed /\ loadsStarted = 1
    /\ state.cachedCollections # <<>>
    /\ state.cachedCollections # loadFallbackCollections

CallStarted == Len(inflight') > Len(inflight)
CallEnded == Len(inflight') < Len(inflight)

\* C22: every selectPersona call with a persona first sets selectedPersona to
\* it with analyzing true and results null, and eventually ends with
\* analyzing false and results non-null (the results screen), whether the
\* endpoint answered with a match, with a degraded match, or failed and the
\* controller's own fallback selection was used
C22_SelectPersonaEndsWithResults ==
    /\ [][CallStarted =>
            /\ state'.selectedPersona = Str(<<inflight'[Len(inflight')].persona>>)
            /\ state'.analyzing
            /\ state'.results = Null]_vars
    /\ [][CallEnded =>
            /\ ~state'.analyzing
            /\ state'.results # Null]_vars
    /\ (inflight # <<>>) ~>
          (inflight = <<>> /\ ~state.analyzing /\ state.results # Null
             /\ View = "results")

\* a call that ended through the controller's fallback
C22_Witness ==
    /\ inflight = <<>>
    /\ ~state.analyzing
    /\ state.results # Null
    /\ state.error # Null
    /\ state.selectedPersona = Str(<<"chaos">>)

\* what the analytics state holds of one metric of one collection
MetricOf(st, addr, type) ==
    IF st[addr] = Undefined THEN [loading |-> FALSE, data |-> NoValue]
    ELSE [loading |-> st[addr].loading[type], data |-> st[addr].data[type]]

\* never requested (or not loaded), and loaded
IsIdle(metric) == ~metric.loading /\ ~metric.data.has
IsLoaded(metric) == ~metric.loading /\ metric.data.has

\* C23: when a classifier call raises, the analytics state records that
\* metric as failed: what it holds of the metric is neither what it holds of
\* an idle metric nor what it holds of a loaded one
C23_RaisedMetricIsRecordedFailed ==
    cr_event.kind = "raise" =>
        LET metric == MetricOf(analyticsState, cr_event.addr, cr_event.type)
        IN  ~IsIdle(metric) /\ ~IsLoaded(metric)

ExpandedOf(st, addr) ==
    IF st[addr] = Undefined THEN FALSE ELSE st[addr].expanded

FetchStep == cr_event'.kind \in {"start", "resolve", "raise"} /\ cr_calls' # cr_calls

\* C24: analytics fetches are independent: starting, completing or failing the
\* fetch of metric m of collection c changes only loading[m] and data[m] of c,
\* leaves every other metric, every other collection and every expanded flag
\* as they were, and no fetch under way waits for another to settle
C24_FetchesAreIndependent ==
    /\ [][FetchStep =>
            /\ \A a \in ShownAddresses, m \in MetricTypes :
                 (a # cr_event'.addr \/ m # cr_event'.type) =>
                    MetricOf(analyticsState', a, m) = MetricOf(analyticsState, a, m)
            /\ \A a \in ShownAddresses :
                 /\ ExpandedOf(analyticsState', a) = ExpandedOf(analyticsState, a)
                 /\ (analyticsState[a] = Undefined) = (analyticsState'[a] = Undefined)]_vars
    /\ [](\A call \in cr_calls : ENABLED (FetchResolves(call) \/ FetchRaises(call)))

\* a fetch of one collection failed while a fetch of another metric of the
\* same collection and a fetch of the other collection are still under way
C24_Witness ==
    /\ cr_event.kind = "raise"
    /\ \E c1 \in cr_calls, c2 \in cr_calls :
         /\ c1.collection.contractAddress = cr_event.addr
         /\ c1.type # cr_event.type
         /\ c2.collection.contractAddress # cr_event.addr
    /\ \A a \in ShownAddresses : ExpandedOf(analyticsState, a)

\* fetchActivityTrends returned for a transfer list upstream returned
ActivityReturned ==
    an_pc = "activity_settled" /\ an_in.v.kind = "return" /\ an_out.v.kind = "return"
ActivityEvents == an_in.v.value.transfers
ActivityResult == an_out.v.value

\* C25: for every transfer list upstream returns, the 10 most recent events
\* at most are used: transferVelocity is 2.4 * count (here in tenths),
\* tradingPattern is active iff the velocity exceeds 20, accumulating iff it
\* is above 5 and at most 20, dormant otherwise; trendDirection is up iff the
\* velocity exceeds 10, stable iff it is above 5 and at most 10, down
\* otherwise; gasEfficiency is always high.
C25_ActivityTrendsFromRecentTransfers ==
    (an_pc = "activity_settled" /\ an_in.v.kind = "return") =>
        /\ an_out.v.kind = "return"
        /\ LET count == Min(Len(ActivityEvents), 10)
               r == ActivityResult
               velocity == r.transferVelocity
           IN  /\ velocity = 24 * count
               /\ (r.tradingPattern = "active") <=> (velocity > 200)
               /\ (r.tradingPattern = "accumulating") <=> (50 < velocity /\ velocity <= 200)
               /\ (r.tradingPattern = "dormant") <=> (velocity <= 50)
               /\ (r.trendDirection = "up") <=> (velocity > 100)
               /\ (r.trendDirection = "stable") <=> (50 < velocity /\ velocity <= 100)
               /\ (r.trendDirection = "down") <=> (velocity <= 50)
               /\ r.gasEfficiency = "high"

\* C25 witness: 12 events gave a velocity of 24 from the 10 most recent ones,
\* an active pattern and an upward trend.
C25_Witness ==
    /\ ActivityReturned
    /\ Len(ActivityEvents) = 12
    /\ ActivityResult.transferVelocity = 240
    /\ ActivityResult.tradingPattern = "active"
    /\ ActivityResult.trendDirection = "up"
    /\ ActivityResult.gasEfficiency = "high"

\* the listed addresses, and the addresses of listed contracts in any
\* letter case
ListedAddresses ==
    {SHAPE_COLLECTION_CONTRACTS[k] : k \in DOMAIN SHAPE_COLLECTION_CONTRACTS}
ListedInSmallLetters == {toLowerCase(a) : a \in ListedAddresses}

\* C26: isShapeNetworkCollection returns true for every entry of
\* SHAPE_COLLECTION_CONTRACTS passed exactly as listed, and false for every
\* address that is not in the list (here: that is no listed contract in any
\* letter case)
C26_ListedAddressesAreRecognised ==
    sn_pc = "returned" =>
        /\ (sn_arg \in ListedAddresses => sn_result = TRUE)
        /\ (toLowerCase(sn_arg) \notin ListedInSmallLetters => sn_result = FALSE)

\* C27: with all three snapshots supplied the local synthesis never returns
\* avoid: the overall score (sum / 3) is at least 50, confidenceScore lies in
\* 50..80, the thesis is buy exactly when momentum is bullish,
\* concentrationRatio is below 50 and tradingPattern is active or
\* accumulating, and hold in every other case.
C27_ComprehensiveNeverAvoids ==
    LocalComprehensive =>
        LET r == dd_analysis.v
            buyCase ==
                /\ dd_args.v.marketHealth.momentum = "bullish"
                /\ dd_args.v.holderAnalysis.concentrationRatio < 500
                /\ dd_args.v.activityTrends.tradingPattern \in {"active", "accumulating"}
        IN  /\ r.investmentThesis # "avoid"
            /\ ClaimedScoreSum >= 3 * 50
            /\ r.confidenceScore \in 50..80
            /\ (r.investmentThesis = "buy") <=> buyCase
            /\ (r.investmentThesis = "hold") <=> ~buyCase

\* C27 witness: bearish, concentrationRatio 80 and dormant, the lowest
\* scores, gave hold with confidence 50.
C27_Witness ==
    /\ LocalComprehensive
    /\ dd_args.v.marketHealth.momentum = "bearish"
    /\ dd_args.v.holderAnalysis.concentrationRatio = 800
    /\ dd_args.v.activityTrends.tradingPattern = "dormant"
    /\ dd_analysis.v.investmentThesis = "hold"
    /\ dd_analysis.v.confidenceScore = 50

\* C28: for any interleaving of the hook's actions with the completions of
\* persona requests under way, results is non-null only while
\* selectedPersona is non-null, and the results held were stored by a request
\* issued for the persona now selected (so a completion that arrives after
\* the selection was cleared or changed, or the widget collapsed, stores
\* nothing)
C28_ResultsBelongToSelection ==
    state.results # Null =>
        /\ state.selectedPersona # Null
        /\ resultsFrom = state.selectedPersona

\* C29: when the confidence of the parsed reply is a number already in [0,1],
\* the boundary values 0 and 1 included, the engine returns that same value
\* as the confidence of the result.
C29_ConfidenceInRangeUnchanged ==
    (/\ PeArrayReply
     /\ PeParsed.confidence.t = "number"
     /\ PeParsed.confidence.n \in 0..100)
        => pe_result.v.confidence = PeParsed.confidence

\* the run of initiateBackgroundCache has written its last progress value
ProgressComplete == ibc_pc \in {"timer500b", "done"}

\* C30: during one run of initiateBackgroundCache the progress values written
\* to the widget state form a non-decreasing sequence within [0,100] that
\* ends at 100, whether the cache was already populated, filled by the
\* gateway after a successful probe (the load's progress forwarded into the
\* band 25..75) or filled from the static set after a failed probe
C30_WidgetProgressMonotone ==
    /\ NonDecreasing(progressLog)
    /\ \A k \in DOMAIN progressLog : progressLog[k] \in Percent(0)..Percent(100)
    /\ progressLog # <<>> => state.progress = progressLog[Len(progressLog)]
    /\ ibc_pc = "loading" =>
         \A k \in 2..Len(progressLog) : progressLog[k] \in Percent(25)..Percent(75)
    /\ ProgressComplete => progressLog[Len(progressLog)] = Percent(100)

\* C30 witness: a run that fetched from the gateway wrote values strictly
\* inside the band between the probe and the end of the batch, then 80 and 100
C30_Witness ==
    /\ ibc_pc = "done"
    /\ state.cachedCollections # loadFallbackCollections
    /\ \E k \in DOMAIN progressLog :
         progressLog[k] > Percent(30) /\ progressLog[k] < Percent(72)
    /\ progressLog[Len(progressLog) - 1] = Percent(80)
    /\ progressLog[Len(progressLog)] = Percent(100)

====
